---- MODULE Spec2Model ----
(***************************************************************************)
(* The Sidecar process bridge of capslap (src/unnamed/part_000): the      *)
(* correlation table `pending`, the progress-subscription table           *)
(* `progressCallbacks`, the `writeLock` promise chain that serialises the  *)
(* writes to the worker's stdin, the readline 'line' handler that         *)
(* dispatches the worker's output, and createFriendlyError.               *)
(*                                                                         *)
(* One action is one event-loop turn (a macrotask) together with the      *)
(* promise reactions (microtasks) it triggers, which Node runs to          *)
(* completion before the next turn.                                        *)
(***************************************************************************)
EXTENDS Integers, Sequences, FiniteSets, TLC

VARIABLES
    issued,             \* number of call() invocations made so far; call i has id i
    withProgress,       \* ids of the calls that were given an onProgress handler
    pending,            \* key set of the Map `pending`
    progressCallbacks,  \* key set of the Map `progressCallbacks`
    promise,            \* promise[i]: the promise call i returned
    link,               \* link[i]: the value of this.writeLock installed by call i
    inFlight,           \* ids whose stdin.write was invoked and whose callback is outstanding
    timers,             \* ids whose setTimeout(resolve, 5) is outstanding
    wire,               \* the request lines handed to stdin.write, in order (by id)
    procState,          \* lifecycle of the child process as the handlers saw it
    last,               \* the event-loop turn that produced the current state
    errorText,          \* the argument of a call of createFriendlyError
    friendly,           \* the Error that call returned
    boot,               \* the constructor's run of start(): probes, spawn, outcome
    toast,              \* the toast showErrorToast raised
    ipc,                \* the renderer's listeners of the channel core:progress
    app                 \* the state of the App component and of its running batch

vars == << issued, withProgress, pending, progressCallbacks, promise, link,
           inFlight, timers, wire, procState, last, errorText, friendly, boot,
           toast, ipc, app >>

\* ------------------------------------------------------------------ bounds

MaxCalls == 3

\* The calls made where every payload is dispatched (DispatchSpec).
MaxDispatchCalls == 2

\* The atoms of an error text that is classified (ClassifySpec).
MaxAtoms == 3

\* The videos of a selection (AppSpec).
MaxVideos == 2

\* The batches handleGenerate starts (AppSpec).
MaxBatches == 1

\* The downloads of models started, the deletes of models under way, the
\* file dialogs open at once and the files of a drop (AppSpec).
MaxDownloads == 1

MaxDeletes == 1

MaxDialogs == 1

MaxDropped == 2

\* The calls of rust.onProgress, the calls of api.receive on core:progress
\* and the functions passed to them (IpcSpec).
MaxSubscriptions == 2

MaxReceives == 1

MaxCallbacks == 2

CallIds == 1 .. MaxCalls

\* An id no call() ever generated (a line of the worker that names no request).
UnknownId == MaxCalls + 1

\* ------------------------------------------------------------ error texts
\* A text is a sequence of atoms; String.includes is containment of a
\* contiguous run of atoms.  The atoms split the trigger phrases where one
\* phrase is a substring of another.

RECURSIVE IncludesAt(_, _, _)
IncludesAt(text, pat, k) ==
    IF k + Len(pat) - 1 > Len(text) THEN FALSE
    ELSE IF SubSeq(text, k, k + Len(pat) - 1) = pat THEN TRUE
    ELSE IncludesAt(text, pat, k + 1)

Includes(text, pat) == IncludesAt(text, pat, 1)

FriendlyRules ==
    << [name |-> "API_KEY_MISSING",
        triggers |-> { <<"API key not provided">>,
                       <<"You ", "didn't provide an API key">> },
        message |-> <<"OpenAI API key is not configured. Add it in settings for better transcription quality.">>],
       [name |-> "API_KEY_INVALID",
        triggers |-> { <<"401 ", "Unauthorized">>, <<"Unauthorized">> },
        message |-> <<"Invalid OpenAI API key. Please check the key in settings.">>],
       [name |-> "NO_LOCAL_MODELS",
        triggers |-> { <<"No whisper models found">>,
                       <<"No local whisper models available">> },
        message |-> <<"Local models not found. Using online transcription via OpenAI API.">>],
       [name |-> "BINARY_NOT_FOUND",
        triggers |-> { <<"whisper.cpp binary not found">>, <<"FFmpeg not found">> },
        message |-> <<"System components not found. Try reinstalling the application.">>],
       [name |-> "NETWORK_ERROR",
        triggers |-> { <<"Network">>, <<"fetch">>, <<"ENOTFOUND">> },
        message |-> <<"Internet connection problem. Check your connection and try again.">>],
       [name |-> "RATE_LIMIT",
        triggers |-> { <<"rate limit">>, <<"Too Many Requests">> },
        message |-> <<"OpenAI API rate limit exceeded. Try later or check your plan.">>],
       [name |-> "QUOTA_EXCEEDED",
        triggers |-> { <<"insufficient_", "quota">>, <<"quota">> },
        message |-> <<"OpenAI API quota exhausted. Top up your account or use local models.">>],
       [name |-> "FILE_NOT_FOUND",
        triggers |-> { <<"file not found">>, <<"No such file">> },
        message |-> <<"File not found. Make sure the video file exists and is accessible.">>],
       [name |-> "BINARY_DEP_MISSING",
        triggers |-> { <<"dyld: ", "Library not loaded">>, <<"image not found">> },
        message |-> <<"Media tools are missing system libraries. Use static ffmpeg/ffprobe builds or reinstall.">>] >>

\* A condition that compares the whole text with the phrase.
RuleMatchesWhole(rule, text) == \E t \in rule.triggers : text = t

RuleMatches(rule, text) == \E t \in rule.triggers : Includes(text, t)

RECURSIVE FirstRuleLast(_, _)
\* A chain of independent ifs, where the last condition that holds wins.
FirstRuleLast(text, k) ==
    IF k > Len(FriendlyRules) THEN 0
    ELSE LET later == FirstRuleLast(text, k + 1)
         IN  IF later # 0 THEN later
             ELSE IF RuleMatches(FriendlyRules[k], text) THEN k
             ELSE 0

RECURSIVE FirstRule(_, _)
\* Index of the first branch of the if/else-if chain whose condition holds, 0 for the else.
FirstRule(text, k) ==
    IF k > Len(FriendlyRules) THEN 0
    ELSE IF RuleMatches(FriendlyRules[k], text) THEN k
    ELSE FirstRule(text, k + 1)

\* An else branch with a fixed message, the text left out.
createFriendlyErrorGeneric(errorMessage) ==
    LET k == FirstRule(errorMessage, 1)
    IN  IF k = 0
        THEN [name |-> "UNKNOWN_ERROR", message |-> <<"An error occurred: ">>]
        ELSE [name |-> FriendlyRules[k].name, message |-> FriendlyRules[k].message]

\* Branches that append the worker's text to their message.
createFriendlyErrorAppendsText(errorMessage) ==
    LET k == FirstRule(errorMessage, 1)
    IN  IF k = 0
        THEN [name |-> "UNKNOWN_ERROR",
              message |-> <<"An error occurred: ">> \o errorMessage]
        ELSE [name |-> FriendlyRules[k].name,
              message |-> FriendlyRules[k].message \o errorMessage]

\* A chain whose quota branch was pasted from the rate-limit branch and kept its name.
createFriendlyErrorPastedName(errorMessage) ==
    LET k == FirstRule(errorMessage, 1)
    IN  IF k = 0
        THEN [name |-> "UNKNOWN_ERROR",
              message |-> <<"An error occurred: ">> \o errorMessage]
        ELSE IF FriendlyRules[k].name = "QUOTA_EXCEEDED"
        THEN [name |-> "RATE_LIMIT", message |-> FriendlyRules[k].message]
        ELSE [name |-> FriendlyRules[k].name, message |-> FriendlyRules[k].message]

createFriendlyError(errorMessage) ==
    LET k == FirstRule(errorMessage, 1)
    IN  IF k = 0
        THEN [name |-> "UNKNOWN_ERROR",
              message |-> <<"An error occurred: ">> \o errorMessage]
        ELSE [name |-> FriendlyRules[k].name, message |-> FriendlyRules[k].message]

\* The phrases an error text is made of: the pieces of the trigger phrases
\* and a phrase that is part of none.
Atoms ==
    { "API key not provided", "You ", "didn't provide an API key",
      "401 ", "Unauthorized",
      "No whisper models found", "No local whisper models available",
      "whisper.cpp binary not found", "FFmpeg not found",
      "Network", "fetch", "ENOTFOUND",
      "rate limit", "Too Many Requests",
      "insufficient_", "quota",
      "file not found", "No such file",
      "dyld: ", "Library not loaded", "image not found",
      "boom" }

Texts == UNION { [1 .. n -> Atoms] : n \in 0 .. MaxAtoms }

\* No Error: createFriendlyError has not returned.
NoFriendly == [name |-> "", message |-> << >>]

\* ------------------------------------------------------------------ values

\* What a promise is settled with.
NoValue == [t |-> "none", result |-> "", name |-> "", message |-> << >>, writeOf |-> 0]

ResultValue(r) == [NoValue EXCEPT !.t = "result", !.result = r]

FriendlyValue(e) == [NoValue EXCEPT !.t = "error", !.name = e.name, !.message = e.message]

\* The err the callback of stdin.write for request j reported.
WriteError(j) == [NoValue EXCEPT !.t = "writeError", !.writeOf = j]

NotAvailableError ==
    [NoValue EXCEPT !.t = "error", !.name = "Error",
                    !.message = <<"Sidecar process not available">>]

NewPromise == [state |-> "none", value |-> NoValue, from |-> 0]

\* resolve()/reject() of a promise that is already settled do nothing.
Settle(p, st, v, from) ==
    IF p.state = "pending" THEN [state |-> st, value |-> v, from |-> from] ELSE p

NewLink == [st |-> "none", err |-> NoValue]

\* ------------------------------------------------------- inbound messages

\* JSON values a `result` field can hold; "undefined" is the absent field.
Results == { "null", "false", "zero", "empty", "obj" }

NoError == [k |-> "undefined", text |-> << >>]

StringError(text) == [k |-> "string", text |-> text]

\* A truthy `error` that is no string (it has no includes method).
NumberError == [k |-> "number", text |-> << >>]

ErrorTexts == { << >>, <<"401 ", "Unauthorized">>, <<"boom">> }

Errors == { StringError(x) : x \in ErrorTexts } \cup { NumberError }

\* A line that JSON.parse rejects.
Garbage == [json |-> FALSE, event |-> "none", id |-> 0, result |-> "undefined", error |-> NoError]

Message(ev, id, r, e) == [json |-> TRUE, event |-> ev, id |-> id, result |-> r, error |-> e]

\* The ids a line of the worker can carry: 0 is the absent (falsy) id,
\* UnknownId a string no call() generated, and otherwise an id the worker was
\* told, that of a request line handed to its stdin (w is the wire): a
\* randomUUID is not guessed.
MessageIds(w) == { 0 } \cup { w[k] : k \in DOMAIN w } \cup { UnknownId }

Payloads ==
    { << r, NoError >> : r \in Results \cup { "undefined" } }
    \cup { << "undefined", e >> : e \in Errors }
    \cup { << "obj", StringError(<<"boom">>) >>, << "null", StringError(<<"boom">>) >> }

ProgressPayloads ==
    { << "undefined", NoError >>, << "obj", NoError >>,
      << "undefined", StringError(<<"boom">>) >> }

\* One line per branch of the handler: the lines of the worker's protocol
\* (progress, success, failure) and a line that is no JSON.
ProtocolLines(w) ==
    { Garbage }
    \cup { Message("progress", id, "undefined", NoError) : id \in MessageIds(w) }
    \cup { Message("none", id, "obj", NoError) : id \in MessageIds(w) }
    \cup { Message("none", id, "undefined", StringError(<<"401 ", "Unauthorized">>)) :
             id \in MessageIds(w) }

\* The protocol's lines and, for the ids of the requests on the wire, every payload.
Lines(w) ==
    ProtocolLines(w)
    \cup { Message("none", w[k], pl[1], pl[2]) : k \in DOMAIN w, pl \in Payloads }
    \cup { Message("progress", w[k], pl[1], pl[2]) : k \in DOMAIN w, pl \in ProgressPayloads }

\* JavaScript truthiness of msg.error.
Truthy(e) == e.k = "number" \/ (e.k = "string" /\ e.text # << >>)

\* ------------------------------------------------------------ the bridge

\* The bridge's mutable state as one record, threaded through a turn.
State ==
    [ pending |-> pending, progressCallbacks |-> progressCallbacks, promise |-> promise,
      link |-> link, inFlight |-> inFlight, timers |-> timers, wire |-> wire, invoked |-> 0 ]

\* A lookup that takes the oldest entry of the Map, whatever the id.
PendingGetFirst(tbl, id) ==
    IF tbl = {} THEN 0 ELSE CHOOSE c \in tbl : \A d \in tbl : c <= d

\* this.pending.get(id): the call whose resolve/reject are stored under id, 0 for undefined.
PendingGet(tbl, id) == IF id \in tbl THEN id ELSE 0

\* A settlement that waits while an earlier call is pending.
SettleViaInOrder(s, id, st, v) ==
    LET c == PendingGet(s.pending, id)
    IN  IF c = 0 \/ \E d \in s.pending : d < c THEN s.promise
        ELSE [s.promise EXCEPT ![c] = Settle(@, st, v, id)]

\* this.pending.get(id)?.resolve(v) / ?.reject(v)
SettleVia(s, id, st, v) ==
    LET c == PendingGet(s.pending, id)
    IN  IF c = 0 THEN s.promise
        ELSE [s.promise EXCEPT ![c] = Settle(@, st, v, id)]

\* A result branch that resolves the call and leaves its entry in the Map.
OnResultKeepsEntry(s, msg) ==
    [s EXCEPT !.promise = SettleVia(s, msg.id, "resolved", ResultValue(msg.result)),
              !.progressCallbacks = @ \ { msg.id }]

\* The result branch of the 'line' handler.
OnResult(s, msg) ==
    [s EXCEPT !.promise = SettleVia(s, msg.id, "resolved", ResultValue(msg.result)),
              !.pending = @ \ { msg.id },
              !.progressCallbacks = @ \ { msg.id }]

\* An error branch that classifies once and reuses the Error of an earlier
\* rejection when there is one.
OnErrorCached(s, msg) ==
    IF msg.error.k # "string" THEN s
    ELSE LET earlier == { j \in CallIds : /\ s.promise[j].state = "rejected"
                                          /\ s.promise[j].value.t = "error" }
             e == IF earlier = {}
                  THEN FriendlyValue(createFriendlyError(msg.error.text))
                  ELSE s.promise[CHOOSE j \in earlier : TRUE].value
         IN  [s EXCEPT !.promise = SettleVia(s, msg.id, "rejected", e),
                       !.pending = @ \ { msg.id },
                       !.progressCallbacks = @ \ { msg.id }]

\* An error branch that leaves the progress callback registered.
OnErrorKeepsCallback(s, msg) ==
    IF msg.error.k # "string" THEN s
    ELSE [s EXCEPT !.promise = SettleVia(s, msg.id, "rejected",
                                         FriendlyValue(createFriendlyError(msg.error.text))),
                   !.pending = @ \ { msg.id }]

\* The error branch of the 'line' handler; createFriendlyError of a value
\* that is no string throws, and the handler's catch swallows the exception.
OnError(s, msg) ==
    IF msg.error.k # "string" THEN s
    ELSE [s EXCEPT !.promise = SettleVia(s, msg.id, "rejected",
                                         FriendlyValue(createFriendlyError(msg.error.text))),
                   !.pending = @ \ { msg.id },
                   !.progressCallbacks = @ \ { msg.id }]

\* A progress branch that falls back on the oldest callback registered when
\* the id has none.
OnProgressFallback(s, msg) ==
    [s EXCEPT !.invoked =
        IF msg.id \in s.progressCallbacks THEN msg.id
        ELSE IF s.progressCallbacks = {} THEN 0
        ELSE CHOOSE c \in s.progressCallbacks : \A d \in s.progressCallbacks : c <= d]

\* A progress branch that drops the callback once it has called it.
OnProgressOnce(s, msg) ==
    [s EXCEPT !.invoked = IF msg.id \in s.progressCallbacks THEN msg.id ELSE 0,
              !.progressCallbacks = @ \ { msg.id }]

\* The progress branch: the registered callback, if any, is called with msg.
OnProgress(s, msg) ==
    [s EXCEPT !.invoked = IF msg.id \in s.progressCallbacks THEN msg.id ELSE 0]

\* A catch that takes the handler's exception for a failure of the call: it
\* rejects the call and drops its entries.
OnProgressThrowsRejects(s, msg) ==
    [s EXCEPT !.invoked = msg.id,
              !.promise = SettleVia(s, msg.id, "rejected", NotAvailableError),
              !.pending = @ \ { msg.id },
              !.progressCallbacks = @ \ { msg.id }]

\* The progress branch when callback(msg) throws: the exception leaves the
\* try block before the return and the catch of the handler logs it.
OnProgressThrows(s, msg) ==
    [s EXCEPT !.invoked = msg.id]

IsErrorShaped(msg) == Truthy(msg.error) /\ msg.id # 0

\* A handler that tests msg.error before msg.result.
ShapeErrorFirst(msg) ==
    IF ~msg.json THEN "garbage"
    ELSE IF msg.event = "progress" /\ msg.id # 0 THEN "progress"
    ELSE IF IsErrorShaped(msg) THEN "error"
    ELSE IF msg.result # "undefined" /\ msg.id # 0 THEN "result"
    ELSE "ignored"

\* A handler that tests msg.result for truthiness.
ShapeTruthyResult(msg) ==
    IF ~msg.json THEN "garbage"
    ELSE IF msg.event = "progress" /\ msg.id # 0 THEN "progress"
    ELSE IF msg.result = "obj" /\ msg.id # 0 THEN "result"
    ELSE IF IsErrorShaped(msg) THEN "error"
    ELSE "ignored"

\* The branch of the 'line' handler a line takes: "garbage" is the catch of
\* JSON.parse, "ignored" the fall through all three conditions.
Shape(msg) ==
    IF ~msg.json THEN "garbage"
    ELSE IF msg.event = "progress" /\ msg.id # 0 THEN "progress"
    ELSE IF msg.result # "undefined" /\ msg.id # 0 THEN "result"
    ELSE IF IsErrorShaped(msg) THEN "error"
    ELSE "ignored"

\* A handler whose catch fails every pending call when a line does not parse.
DispatchFailsOnGarbage(s, msg) ==
    LET branch == Shape(msg)
    IN  IF branch = "progress" THEN OnProgress(s, msg)
        ELSE IF branch = "result" THEN OnResult(s, msg)
        ELSE IF branch = "error" THEN OnError(s, msg)
        ELSE IF branch = "garbage"
        THEN [s EXCEPT !.promise = [i \in CallIds |->
                                      Settle(s.promise[i], "rejected", NotAvailableError, 0)],
                       !.pending = {},
                       !.progressCallbacks = {}]
        ELSE s

\* rl.on('line', ...)
Dispatch(s, msg) ==
    LET branch == Shape(msg)
    IN  IF branch = "progress" THEN OnProgress(s, msg)
        ELSE IF branch = "result" THEN OnResult(s, msg)
        ELSE IF branch = "error" THEN OnError(s, msg)
        ELSE s

\* ------------------------------------------------------- the write chain

\* this.proc and this.proc.stdin: set by start() and never cleared.
ProcAvailable == TRUE

\* The promise this.writeLock held when call i chained its write: the link of
\* the latest earlier call that reached writeWithLock, or Promise.resolve().
RECURSIVE PrevLink(_, _)
PrevLink(lk, i) ==
    IF i <= 1 THEN [st |-> "fulfilled", err |-> NoValue]
    ELSE IF lk[i - 1].st # "none" THEN lk[i - 1]
    ELSE PrevLink(lk, i - 1)

\* A .catch of call() that leaves the progress callback registered.
WriteFailedKeepsCallback(s, i, e) ==
    [s EXCEPT !.pending = @ \ { i },
              !.promise[i] = Settle(@, "rejected", e, 0)]

\* The .catch of call(): runs when the write promise of call i rejects with e.
WriteFailed(s, i, e) ==
    [s EXCEPT !.pending = @ \ { i },
              !.progressCallbacks = @ \ { i },
              !.promise[i] = Settle(@, "rejected", e, 0)]

\* Link i rejects with e, and the .catch of call i runs.
RejectLink(s, i, e) ==
    WriteFailed([s EXCEPT !.link[i] = [st |-> "rejected", err |-> e]], i, e)

\* A write that sends the request made last instead of its own.
StartWriteLatest(s, i) ==
    LET latest == CHOOSE j \in CallIds :
                      /\ s.link[j].st # "none"
                      /\ \A k \in CallIds : s.link[k].st # "none" => k <= j
    IN  [s EXCEPT !.wire = Append(@, latest), !.inFlight = @ \cup { i }]

\* The body of the .then of writeWithLock, run when the previous link fulfilled.
StartWrite(s, i) ==
    IF ~ProcAvailable THEN RejectLink(s, i, NotAvailableError)
    ELSE [s EXCEPT !.wire = Append(@, i), !.inFlight = @ \cup { i }]

\* The write passed to .then as the rejection handler: it never runs after
\* a write that succeeded.
ThenRunsOnRejection(prevSt) == prevSt = "rejected"

\* A write that does not wait for the write before it to finish.
ThenRunsEarly(prevSt) == prevSt \in { "fulfilled", "pending" }

\* A .then callback runs only once the promise it is chained to has fulfilled.
ThenRuns(prevSt) == prevSt = "fulfilled"

\* A chain whose .catch swallows the error: the next write runs.
ReactRecovers(s, i) ==
    IF s.link[i].st # "pending" \/ i \in s.inFlight \/ i \in s.timers THEN s
    ELSE LET prev == PrevLink(s.link, i)
         IN  IF prev.st \in { "rejected", "fulfilled" } THEN StartWrite(s, i)
             ELSE s

\* The reaction of link i to the state of the link before it.
React(s, i) ==
    IF s.link[i].st # "pending" \/ i \in s.inFlight \/ i \in s.timers THEN s
    ELSE LET prev == PrevLink(s.link, i)
         IN  IF prev.st = "rejected" THEN RejectLink(s, i, prev.err)
             ELSE IF ThenRuns(prev.st) THEN StartWrite(s, i)
             ELSE s

\* The microtask queue runs dry: every link reacts, in chain order.
RECURSIVE DrainFrom(_, _)
DrainFrom(s, i) == IF i > MaxCalls THEN s ELSE DrainFrom(React(s, i), i + 1)

Drain(s) == DrainFrom(s, 1)

\* ---------------------------------------------------------------- actions

\* The turn just taken: its kind, the call or message id it concerned, the
\* branch of the handler a line took ("none" when it is no 'line' turn), the outcome of a write callback (or whether call()
\* returned normally), and the progress handler it invoked (0: none).
Turn(kind, id, shape, ok, inv) ==
    [kind |-> kind, id |-> id, shape |-> shape, ok |-> ok, invoked |-> inv]

BridgeInit ==
    /\ issued = 0
    /\ withProgress = {}
    /\ pending = {}
    /\ progressCallbacks = {}
    /\ promise = [i \in CallIds |-> NewPromise]
    /\ link = [i \in CallIds |-> NewLink]
    /\ inFlight = {}
    /\ timers = {}
    /\ wire = << >>
    /\ procState = "running"
    /\ last = Turn("start", 0, "none", TRUE, 0)

\* The candidate paths of the worker binary (possiblePaths).
NumPaths == 6

Paths == 1 .. NumPaths

\* What fs.existsSync finds at each candidate path; "throws" is the probe
\* raising, which the loop's catch passes over.
Probes == [Paths -> { "exists", "missing", "throws" }]

\* What spawn does: the child runs, spawn throws, or spawn returns a child
\* that reports the failure in its 'error' event (ENOENT, EACCES).
SpawnOutcomes == { "ok", "throws", "errorEvent" }

\* The loop of start() without its break: the last existing path wins.
ProbeFromNoBreak(probe, k) ==
    LET found == { q \in k .. NumPaths : probe[q] = "exists" }
    IN  IF found = {} THEN 1 ELSE CHOOSE q \in found : \A r \in found : r <= q

\* The loop of start() from candidate k on: binPath is the first candidate
\* that exists, and stays possiblePaths[0] when the loop finds none.
RECURSIVE ProbeFrom(_, _)
ProbeFrom(probe, k) ==
    IF k > NumPaths THEN 1
    ELSE IF probe[k] = "exists" THEN k
    ELSE ProbeFrom(probe, k + 1)

\* A Sidecar whose constructor has returned: the state the bridge works in.
Booted ==
    [phase |-> "started", probe |-> [q \in Paths |-> "exists"], spawn |-> "ok",
     binPath |-> 1, spawned |-> 1, thrown |-> FALSE]

\* No toast was raised, nothing listens to core:progress, the App is not mounted.
NoToast == << >>

NoIpc ==
    [subscriptions |-> 0,
     cb |-> << >>,
     received |-> {},
     listeners |-> << >>,
     unsubscribed |-> {},
     cleared |-> {},
     event |-> "none",
     delivered |-> << >>,
     invoked |-> << >>]

NoApp == [mounted |-> FALSE]

RendererIdle ==
    /\ toast = NoToast
    /\ ipc = NoIpc
    /\ app = NoApp

Init ==
    /\ BridgeInit
    /\ errorText = << >>
    /\ friendly = NoFriendly
    /\ boot = Booted
    /\ RendererIdle

\* What changes of the bridge's tables, promises and chain in a turn ending in state s.
Becomes(s) ==
    /\ pending' = s.pending
    /\ progressCallbacks' = s.progressCallbacks
    /\ promise' = s.promise
    /\ link' = s.link
    /\ inFlight' = s.inFlight
    /\ timers' = s.timers
    /\ wire' = s.wire

\* call(method, params, onProgress) up to and including JSON.stringify, which
\* throws on params it cannot serialise (a BigInt, a cycle).
Register(s, i, onProgress) ==
    IF onProgress THEN [s EXCEPT !.progressCallbacks = @ \cup { i }] ELSE s

\* An executor that chains the write and leaves pending.set out.
EnqueueUnregistered(s, i) ==
    [s EXCEPT !.promise[i] = [state |-> "pending", value |-> NoValue, from |-> 0],
              !.link[i] = [st |-> "pending", err |-> NoValue]]

\* The Promise executor of call(): pending.set, then writeWithLock chains link i.
Enqueue(s, i) ==
    [s EXCEPT !.pending = @ \cup { i },
              !.promise[i] = [state |-> "pending", value |-> NoValue, from |-> 0],
              !.link[i] = [st |-> "pending", err |-> NoValue]]

\* A generator that returns the id it returned last once more.
randomUUIDRepeats(n) == IF n = 0 THEN 1 ELSE n

\* randomUUID() after n ids were generated: a version-4 UUID, 122 random
\* bits, taken as a value no earlier call returned; here the next integer.
randomUUID(n) == n + 1

\* call(method, params, onProgress)
Call(onProgress, serialisable) ==
    /\ issued < MaxCalls
    /\ LET i == randomUUID(issued)
           r == Register(State, i, onProgress)
       IN  /\ issued' = issued + 1
           /\ withProgress' = IF onProgress THEN withProgress \cup { i } ELSE withProgress
           /\ IF serialisable
              THEN Becomes(Drain(Enqueue(r, i)))
              ELSE Becomes([r EXCEPT !.promise[i] =
                               [state |-> "threw", value |-> NoValue, from |-> 0]])
           /\ last' = Turn("call", i, "none", serialisable, 0)
    /\ UNCHANGED << procState, errorText, friendly, boot, toast, ipc, app >>

CallStep == \E onProgress \in BOOLEAN, serialisable \in BOOLEAN : Call(onProgress, serialisable)

\* One line of the worker's stdout reaches the 'line' handler.
Line(msg) ==
    /\ LET s == Dispatch(State, msg)
       IN  /\ Becomes(s)
           /\ last' = Turn("line", msg.id, Shape(msg), TRUE, s.invoked)
    /\ UNCHANGED << issued, withProgress, procState, errorText, friendly, boot, toast, ipc, app >>

LineStep == \E msg \in ProtocolLines(wire) : Line(msg)

\* A progress line reaches a registered callback, and the callback throws.
ThrowingLine(msg) ==
    /\ Shape(msg) = "progress"
    /\ msg.id \in progressCallbacks
    /\ LET s == OnProgressThrows(State, msg)
       IN  /\ Becomes(s)
           /\ last' = Turn("line", msg.id, "progress", FALSE, s.invoked)
    /\ UNCHANGED << issued, withProgress, procState, errorText, friendly, boot, toast, ipc, app >>

ThrowingLineStep == \E msg \in ProtocolLines(wire) : ThrowingLine(msg)

\* As LineStep, with every payload the model knows.
AnyLineStep == \E msg \in Lines(wire) : Line(msg)

\* The callback of stdin.write for request j, without err: the grace timer is set.
WriteDone(s, j) ==
    [s EXCEPT !.inFlight = @ \ { j }, !.timers = @ \cup { j }]

\* The callback of stdin.write for request j, with err: the write promise rejects.
WriteErrored(s, j) ==
    RejectLink([s EXCEPT !.inFlight = @ \ { j }], j, WriteError(j))

WriteCallback(j, ok) ==
    /\ j \in inFlight
    /\ Becomes(Drain(IF ok THEN WriteDone(State, j) ELSE WriteErrored(State, j)))
    /\ last' = Turn("writeCallback", j, "none", ok, 0)
    /\ UNCHANGED << issued, withProgress, procState, errorText, friendly, boot, toast, ipc, app >>

WriteCallbackStep == \E j \in CallIds, ok \in BOOLEAN : WriteCallback(j, ok)

\* setTimeout(resolve, 5) fires: link j fulfils and the next write may begin.
GraceElapsed(s, j) ==
    [s EXCEPT !.timers = @ \ { j }, !.link[j] = [st |-> "fulfilled", err |-> NoValue]]

Timer(j) ==
    /\ j \in timers
    /\ Becomes(Drain(GraceElapsed(State, j)))
    /\ last' = Turn("timer", j, "none", TRUE, 0)
    /\ UNCHANGED << issued, withProgress, procState, errorText, friendly, boot, toast, ipc, app >>

TimerStep == \E j \in CallIds : Timer(j)

\* An 'exit' handler that fails every pending call and empties the tables.
ProcExitFailsPending ==
    /\ procState = "running"
    /\ procState' = "exited"
    /\ last' = Turn("exit", 0, "none", TRUE, 0)
    /\ promise' = [i \in CallIds |-> Settle(promise[i], "rejected", NotAvailableError, 0)]
    /\ pending' = {}
    /\ progressCallbacks' = {}
    /\ UNCHANGED << issued, withProgress, link, inFlight, timers, wire, errorText,
                    friendly, boot, toast, ipc, app >>

\* proc.on('exit', ...): the handler logs.
ProcExit ==
    /\ procState = "running"
    /\ procState' = "exited"
    /\ last' = Turn("exit", 0, "none", TRUE, 0)
    /\ UNCHANGED << issued, withProgress, pending, progressCallbacks, promise, link,
                    inFlight, timers, wire, errorText, friendly, boot, toast, ipc, app >>

\* proc.on('error', ...): the handler logs.
ProcError ==
    /\ procState = "running"
    /\ procState' = "errored"
    /\ last' = Turn("error", 0, "none", TRUE, 0)
    /\ UNCHANGED << issued, withProgress, pending, progressCallbacks, promise, link,
                    inFlight, timers, wire, errorText, friendly, boot, toast, ipc, app >>

\* createFriendlyError(errorMessage), as the error branch of the 'line'
\* handler calls it on msg.error.
Classify ==
    /\ friendly = NoFriendly
    /\ friendly' = createFriendlyError(errorText)
    /\ last' = Turn("classify", 0, "none", TRUE, 0)
    /\ UNCHANGED << issued, withProgress, pending, progressCallbacks, promise, link,
                    inFlight, timers, wire, procState, errorText, boot, toast, ipc, app >>

\* The bridge at work: calls, lines of the worker, write callbacks, timers.
Next ==
    \/ CallStep
    \/ LineStep
    \/ WriteCallbackStep
    \/ TimerStep

Spec == Init /\ [][Next]_vars

\* The bridge with progress callbacks that may throw.
ThrowNext ==
    \/ CallStep
    \/ LineStep
    \/ ThrowingLineStep
    \/ WriteCallbackStep
    \/ TimerStep

ThrowSpec == Init /\ [][ThrowNext]_vars

\* The bridge and the lifecycle events of the child process.
LifeNext ==
    \/ CallStep
    \/ LineStep
    \/ WriteCallbackStep
    \/ TimerStep
    \/ ProcExit
    \/ ProcError

LifeSpec == Init /\ [][LifeNext]_vars

\* The dispatch of every payload, over calls whose writes succeed.
DispatchNext ==
    \/ \E onProgress \in BOOLEAN : issued < MaxDispatchCalls /\ Call(onProgress, TRUE)
    \/ AnyLineStep
    \/ \E j \in CallIds : WriteCallback(j, TRUE)
    \/ TimerStep

DispatchSpec == Init /\ [][DispatchNext]_vars

\* The event loop runs every callback that is due: a write that was handed to
\* stdin gets its callback, and a timer that was set fires.
FairSpec == LifeSpec /\ WF_vars(WriteCallbackStep) /\ WF_vars(TimerStep)

\* The worker emits a result or an error message for request i, which it was sent.
Answer(i) ==
    \E msg \in Lines(wire) :
        /\ msg.json
        /\ msg.event = "none"
        /\ msg.id = i
        /\ msg.result # "undefined" \/ (msg.result = "undefined" /\ msg.error.k = "string")
        /\ Line(msg)

\* stdin.write calls back without an error.
WriteSucceeds == \E j \in CallIds : WriteCallback(j, TRUE)

\* Every write succeeds and the event loop runs the callbacks and timers
\* that are due.
WritingSpec ==
    /\ DispatchSpec
    /\ WF_vars(WriteSucceeds)
    /\ WF_vars(TimerStep)

\* Every write succeeds, the event loop runs the callbacks and timers that
\* are due, and the worker answers every request line it was sent.
AnsweringSpec ==
    /\ DispatchSpec
    /\ WF_vars(WriteSucceeds)
    /\ WF_vars(TimerStep)
    /\ \A i \in CallIds : WF_vars(Answer(i))

\* new Sidecar(): the constructor runs start() to its end in one turn: the
\* probe of the candidate paths, spawn(binPath), and either the catch that
\* rethrows or the registration of the handlers.
Start ==
    /\ boot.phase = "new"
    /\ LET binPath == ProbeFrom(boot.probe, 1)
       IN  IF boot.spawn = "throws"
           THEN /\ boot' = [boot EXCEPT !.phase = "failed", !.binPath = binPath,
                                        !.spawned = binPath, !.thrown = TRUE]
                /\ procState' = "none"
           ELSE /\ boot' = [boot EXCEPT !.phase = "started", !.binPath = binPath,
                                        !.spawned = binPath]
                /\ procState' = "running"
    /\ last' = Turn("construct", 0, "none", boot.spawn # "throws", 0)
    /\ UNCHANGED << issued, withProgress, pending, progressCallbacks, promise, link,
                    inFlight, timers, wire, errorText, friendly, toast, ipc, app >>

\* The 'error' event of a child whose spawn failed, or of a running child.
SpawnErrorEvent == boot.phase = "started" /\ ProcError

\* The 'exit' event of a child that ran.
SpawnedExit == boot.phase = "started" /\ boot.spawn = "ok" /\ ProcExit

\* The construction of a Sidecar, for every outcome of the probes and of spawn.
StartInit ==
    /\ issued = 0
    /\ withProgress = {}
    /\ pending = {}
    /\ progressCallbacks = {}
    /\ promise = [i \in CallIds |-> NewPromise]
    /\ link = [i \in CallIds |-> NewLink]
    /\ inFlight = {}
    /\ timers = {}
    /\ wire = << >>
    /\ procState = "none"
    /\ last = Turn("none", 0, "none", TRUE, 0)
    /\ errorText = << >>
    /\ friendly = NoFriendly
    /\ \E probe \in Probes, outcome \in SpawnOutcomes :
          boot = [phase |-> "new", probe |-> probe, spawn |-> outcome,
                  binPath |-> 0, spawned |-> 0, thrown |-> FALSE]
    /\ RendererIdle

StartNext ==
    \/ Start
    \/ SpawnErrorEvent
    \/ SpawnedExit

StartSpec == StartInit /\ [][StartNext]_vars

\* The classification of one error text, any text of at most MaxAtoms atoms.
ClassifyInit ==
    /\ BridgeInit
    /\ errorText \in Texts
    /\ friendly = NoFriendly
    /\ boot = Booted
    /\ RendererIdle

ClassifyNext == Classify

ClassifySpec == ClassifyInit /\ [][ClassifyNext]_vars

\* ------------------------------------------- the preload's api and rust

\* The functions a caller passes to rust.onProgress and to api.receive.
Callbacks == 1 .. MaxCallbacks

\* The channel of the progress messages and another channel of the preload.
CoreProgressChannel == "core:progress"

Channels == { CoreProgressChannel, "core:call" }

\* ipcRenderer.on(channel, listener) for core:progress: a listener that
\* calls cb is added at the end of the channel's list; the listeners are
\* numbered in the order they were made, and via tells the function that
\* made the listener.
AddListener(i, cb, via) ==
    [i EXCEPT !.subscriptions = @ + 1,
              !.cb = Append(@, cb),
              !.received = IF via = "receive" THEN @ \cup { i.subscriptions + 1 } ELSE @,
              !.listeners = Append(@, i.subscriptions + 1),
              !.event = via,
              !.delivered = << >>,
              !.invoked = << >>]

\* ipcRenderer.removeListener(channel, listener): the most recently added
\* instance of the listener is taken out of the channel's list.
RemoveListener(listeners, s) ==
    LET at == { k \in DOMAIN listeners : listeners[k] = s }
    IN  IF at = {}
        THEN listeners
        ELSE LET k == CHOOSE k \in at : \A j \in at : j <= k
             IN  SubSeq(listeners, 1, k - 1) \o SubSeq(listeners, k + 1, Len(listeners))

\* rust.onProgress(cb): a new listener that calls cb is added to
\* core:progress; subscription s is the listener numbered s.
onProgress(i, cb) == AddListener(i, cb, "onProgress")

\* api.receive(channel, func): a new listener that calls func is added to
\* the channel, and nothing is returned to take it out with. The listeners
\* of another channel are not among those of core:progress.
receive(i, channel, func) ==
    IF channel = CoreProgressChannel
    THEN AddListener(i, func, "receive")
    ELSE [i EXCEPT !.event = "receive", !.delivered = << >>, !.invoked = << >>]

\* An unsubscribe that empties the channel, as removeAllListeners does.
unsubscribeAll(i, s) ==
    [i EXCEPT !.listeners = << >>,
              !.unsubscribed = @ \cup { s },
              !.event = "unsubscribe",
              !.delivered = << >>,
              !.invoked = << >>]

\* The function rust.onProgress returned for subscription s:
\* removeListener of the listener of s.
unsubscribe(i, s) ==
    [i EXCEPT !.listeners = RemoveListener(@, s),
              !.unsubscribed = @ \cup { s },
              !.event = "unsubscribe",
              !.delivered = << >>,
              !.invoked = << >>]

\* api.removeAllListeners(channel): every listener of the channel is taken
\* out, whichever function added it.
removeAllListeners(i, channel) ==
    IF channel = CoreProgressChannel
    THEN [i EXCEPT !.listeners = << >>,
                   !.cleared = @ \cup { i.listeners[k] : k \in DOMAIN i.listeners },
                   !.event = "removeAll",
                   !.delivered = << >>,
                   !.invoked = << >>]
    ELSE [i EXCEPT !.event = "removeAll", !.delivered = << >>, !.invoked = << >>]

\* A core:progress message is emitted: every listener of the channel is
\* called once, in the order of their registration, and calls its callback
\* with the message.
emit(i) ==
    [i EXCEPT !.event = "message",
              !.delivered = i.listeners,
              !.invoked = [k \in DOMAIN i.listeners |-> i.cb[i.listeners[k]]]]

\* What the actions of the preload leave alone.
IpcFrame ==
    UNCHANGED << issued, withProgress, pending, progressCallbacks, promise, link,
                 inFlight, timers, wire, procState, last, errorText, friendly, boot,
                 toast, app >>

\* How many of the listeners made so far were made by rust.onProgress.
Subscribed(i) == i.subscriptions - Cardinality(i.received)

\* A caller subscribes the callback cb.
OnProgressSubscribe(cb) ==
    /\ Subscribed(ipc) < MaxSubscriptions
    /\ ipc' = onProgress(ipc, cb)
    /\ IpcFrame

OnProgressSubscribeStep == \E cb \in Callbacks : OnProgressSubscribe(cb)

\* A caller registers func on a channel through window.api.
Receive(channel, func) ==
    /\ channel = CoreProgressChannel => Cardinality(ipc.received) < MaxReceives
    /\ ipc' = receive(ipc, channel, func)
    /\ IpcFrame

ReceiveStep == \E channel \in Channels, func \in Callbacks : Receive(channel, func)

\* The unsubscribe function that rust.onProgress returned for subscription s
\* is called, for the first time or again.
Unsubscribe(s) ==
    /\ s \in (1 .. ipc.subscriptions) \ ipc.received
    /\ ipc' = unsubscribe(ipc, s)
    /\ IpcFrame

UnsubscribeStep == \E s \in 1 .. MaxSubscriptions + MaxReceives : Unsubscribe(s)

\* A core:progress message arrives.
CoreProgress ==
    /\ ipc' = emit(ipc)
    /\ IpcFrame

\* A channel is emptied through window.api.
RemoveAllListeners(channel) ==
    /\ ipc' = removeAllListeners(ipc, channel)
    /\ IpcFrame

RemoveAllListenersStep == \E channel \in Channels : RemoveAllListeners(channel)

IpcNext ==
    \/ OnProgressSubscribeStep
    \/ ReceiveStep
    \/ UnsubscribeStep
    \/ CoreProgress
    \/ RemoveAllListenersStep

IpcSpec == Init /\ [][IpcNext]_vars

\* ------------------------------------------------------- showErrorToast

\* A toast raised by toast.error, toast.warning or toast.success directly.
PlainToast(level, title, description) ==
    [case |-> "plain", level |-> level, title |-> title, description |-> description,
     error |-> NoFriendly, count |-> 0]

\* The cases of the switch on error.name: the toast of each, titles without
\* their pictograph.
ToastCases ==
    { [name |-> "API_KEY_MISSING", level |-> "error",
       title |-> "API Key Not Configured",
       description |-> "Add OpenAI API key in settings for better transcription quality."],
      [name |-> "API_KEY_INVALID", level |-> "error",
       title |-> "Invalid API Key",
       description |-> "Please check your OpenAI API key in settings."],
      [name |-> "NO_LOCAL_MODELS", level |-> "warning",
       title |-> "Using Online Transcription",
       description |-> "Local models not found. Transcription performed via OpenAI API."],
      [name |-> "BINARY_NOT_FOUND", level |-> "error",
       title |-> "System Error",
       description |-> "Application components not found. Try reinstalling CapSlap."],
      [name |-> "BINARY_DEP_MISSING", level |-> "error",
       title |-> "Missing System Libraries",
       description |-> "Media tools require static ffmpeg/ffprobe builds. Please reinstall or contact support."],
      [name |-> "NETWORK_ERROR", level |-> "error",
       title |-> "Internet Connection Problem",
       description |-> "Check your network connection and try again."],
      [name |-> "RATE_LIMIT", level |-> "error",
       title |-> "Rate Limit Exceeded",
       description |-> "Too many requests to OpenAI API. Try again later."],
      [name |-> "QUOTA_EXCEEDED", level |-> "error",
       title |-> "API Quota Exhausted",
       description |-> "Top up your OpenAI balance or use local models."],
      [name |-> "FILE_NOT_FOUND", level |-> "error",
       title |-> "File Not Found",
       description |-> "Make sure the video file exists and is accessible."] }

\* The description of the default toast when error.message is empty.
UnexpectedError == "An unexpected error occurred. Please try again."

\* The toast of the switch with the given cases, the default one otherwise.
ToastOf(cases, error, count) ==
    LET countText == IF count > 1 THEN << " (", ToString(count), " videos)" >> ELSE << >>
        matching == { c \in cases : c.name = error.name }
    IN  IF matching # {}
        THEN LET c == CHOOSE c \in matching : TRUE
             IN  [case |-> c.name, level |-> c.level, title |-> << c.title >>,
                  description |-> << c.description >>, error |-> error, count |-> count]
        ELSE [case |-> "default", level |-> "error",
              title |-> << "Error" >> \o countText,
              description |-> IF error.message = << >> THEN << UnexpectedError >>
                              ELSE error.message,
              error |-> error, count |-> count]

\* A switch without the case of BINARY_DEP_MISSING.
showErrorToastWithoutDepCase(error, count) ==
    ToastOf({ c \in ToastCases : c.name # "BINARY_DEP_MISSING" }, error, count)

\* showErrorToast(error, count = 1).
showErrorToast(error, count) == ToastOf(ToastCases, error, count)

\* Errors that come from elsewhere than createFriendlyError: the err of a
\* failed write, the Error of a missing process, an Error without a message.
OtherErrors ==
    { [name |-> "Error", message |-> << "write EPIPE" >>],
      [name |-> "Error", message |-> << "Sidecar process not available" >>],
      [name |-> "Error", message |-> << >>] }

\* The errors at hand: the classified one, once there is one, and the others.
ErrorsAtHand ==
    OtherErrors \cup (IF friendly = NoFriendly THEN {} ELSE { friendly })

\* showErrorToast is called on an error, with the number of failed videos.
ShowErrorToast(error, count) ==
    /\ toast' = << showErrorToast(error, count) >>
    /\ UNCHANGED << issued, withProgress, pending, progressCallbacks, promise, link,
                    inFlight, timers, wire, procState, last, errorText, friendly, boot,
                    ipc, app >>

ShowErrorToastStep ==
    \E error \in ErrorsAtHand, count \in 1 .. MaxVideos : ShowErrorToast(error, count)

\* The texts classified before a toast: every trigger phrase of the chain, a
\* text without one and the empty text.
ToastTexts ==
    UNION { FriendlyRules[k].triggers : k \in DOMAIN FriendlyRules }
        \cup { << "boom" >>, << >> }

ToastInit ==
    /\ BridgeInit
    /\ errorText \in ToastTexts
    /\ friendly = NoFriendly
    /\ boot = Booted
    /\ RendererIdle

ToastNext ==
    \/ Classify
    \/ ShowErrorToastStep

ToastSpec == ToastInit /\ [][ToastNext]_vars

\* ---------------------------------------------------------------- the App

\* The videos that can be selected.
Videos == 1 .. MaxVideos

\* The ids of the requests that report progress on core:progress: request k
\* is the k-th generateCaptions call the App has made, and the downloads of
\* models have ids of their own.
RequestIds == 1 .. (MaxBatches * MaxVideos)

DownloadId(j) == MaxBatches * MaxVideos + j

Ids == 1 .. (MaxBatches * MaxVideos + MaxDownloads)

\* A message without an id.
NoId == 0

\* A dropped file whose extension is none of mp4, mov, mkv, avi, and one
\* whose extension is empty (a name that ends in a dot).
Unsupported == 0

NoExtension == -1

\* videoSettings.selectedModel: the online model and a local one.
Models == { "whisper-1", "tiny" }

LocalModels == Models \ { "whisper-1" }

\* No model is being downloaded (downloading is null).
NoModel == ""

\* The export format of the default settings, one of the availableExportFormats.
Formats == { "9:16" }

\* What is typed into the key field of the settings: text as a sequence of atoms.
TypedKeys == { << >>, << " " >>, << "sk-1" >>, << " ", "sk-1", " " >> }

\* String.prototype.trim.
RECURSIVE TrimStart(_)
TrimStart(s) == IF s # << >> /\ Head(s) = " " THEN TrimStart(Tail(s)) ELSE s

RECURSIVE TrimEnd(_)
TrimEnd(s) ==
    IF s # << >> /\ s[Len(s)] = " " THEN TrimEnd(SubSeq(s, 1, Len(s) - 1)) ELSE s

Trim(s) == TrimEnd(TrimStart(s))

\* Array.prototype.join(', ') of paths.
RECURSIVE JoinPaths(_)
JoinPaths(paths) ==
    IF paths = << >> THEN << >>
    ELSE IF Len(paths) = 1 THEN << ToString(paths[1]) >>
    ELSE << ToString(paths[1]), ", " >> \o JoinPaths(Tail(paths))

\* The sequences without repetition over a set, up to a length.
DistinctSeqs(S, n) ==
    { s \in UNION { [1 .. m -> S] : m \in 0 .. n } :
        \A j, k \in DOMAIN s : j # k => s[j] # s[k] }

\* What the file dialog returns (nothing when it is cancelled) and what a
\* drop carries.
PickedPaths == DistinctSeqs(Videos, MaxVideos)

DroppedFiles ==
    DistinctSeqs(Videos \cup { Unsupported, NoExtension }, MaxDropped) \ { << >> }

Includes1(s, x) == \E k \in DOMAIN s : s[k] = x

\* new Set(array), in insertion order.
RECURSIVE Unique(_)
Unique(s) ==
    IF s = << >> THEN << >>
    ELSE LET front == Unique(SubSeq(s, 1, Len(s) - 1))
         IN  IF Includes1(front, s[Len(s)]) THEN front ELSE Append(front, s[Len(s)])

\* The entries of progressMap; an absent key is NoProgress. The percentage
\* of an entry is not kept, the request whose event set it is.
NoProgress == [status |-> "none", request |-> 0]

Starting == [status |-> "Starting...", request |-> 0]

Complete == [status |-> "Complete", request |-> 0]

Shown(k) == [status |-> "progress", request |-> k]

\* What a generateCaptions call is rejected with.
CallErrors ==
    { createFriendlyError(<< "Unauthorized" >>), createFriendlyError(<< "boom" >>) }

\* The message of the error rust.deleteModel is rejected with.
DeleteErrors == { << "disk error" >>, << >> }

\* The App after its first render and its mount effects: the saved key and
\* the saved settings are loaded, ModelDownloader has asked whether the
\* local models are on disk and shows none as downloaded until the answer.
MountedApp(key, exportFormats, selectedModel) ==
    [mounted |-> TRUE,
     selectedVideos |-> << >>,
     picking |-> 0,
     exportFormats |-> exportFormats,
     selectedModel |-> selectedModel,
     checking |-> TRUE,
     downloaded |-> {},
     downloading |-> NoModel,
     downloads |-> << >>,
     deleting |-> << >>,
     apiKey |-> key,
     shouldGenerateAfterApiKey |-> FALSE,
     isApiKeySettingsOpen |-> FALSE,
     isGenerating |-> FALSE,
     progressMap |-> [v \in Videos |-> NoProgress],
     requestIdToVideoPath |-> [k \in Ids |-> 0],
     batches |-> << >>,
     calls |-> << >>,
     clearTimers |-> 0]

\* The renderer as a handler finds it: no toast raised and nothing done on
\* the channel yet in this turn.
Renderer ==
    [app |-> app,
     ipc |-> [ipc EXCEPT !.event = "none", !.delivered = << >>, !.invoked = << >>],
     toast |-> << >>]

\* handleVideoSelect after its await, run in the render whose selection was
\* selectedVideos: paths is what the dialog returned.
handleVideoSelect(selectedVideos, paths, r) ==
    LET duplicates == SelectSeq(paths, LAMBDA f : Includes1(selectedVideos, f))
        pathsWithoutDuplicates ==
            SelectSeq(paths, LAMBDA f : ~Includes1(selectedVideos, f))
    IN  [r EXCEPT
           !.toast =
               IF duplicates # << >>
               THEN Append(@, PlainToast("error", << "Video already uploaded" >>,
                                         << "Duplicate videos: " >> \o JoinPaths(duplicates)))
               ELSE @,
           !.app.selectedVideos = @ \o pathsWithoutDuplicates]

\* handleDrop of the render whose state is a.
handleDrop(a, files, r) ==
    LET validFiles == SelectSeq(files, LAMBDA f : f \in Videos)
        invalidFiles == SelectSeq(files, LAMBDA f : f = Unsupported)
        unsupported ==
            IF invalidFiles # << >>
            THEN << PlainToast("error", << "Unsupported files format:" >>,
                               << "Supported: mp4, mov, mkv, avi" >>) >>
            ELSE << >>
    IN  handleVideoSelect(a.selectedVideos, validFiles, [r EXCEPT !.toast = @ \o unsupported])

\* handleGenerate gets past its two early returns.
StartsBatch(a) ==
    /\ a.selectedVideos # << >>
    /\ ~(a.apiKey = << >> /\ a.selectedModel = "whisper-1")

\* handleGenerate up to its await, run in a handler of the render whose state
\* is a: it reads a, and what it does is added to r. No video: a toast. No
\* key with whisper-1: the generation is deferred and the settings open.
\* Otherwise a batch starts: the progress of the selected videos is
\* "Starting...", the map of request ids is a new one, the set of the
\* selected videos is pending, the progress handler is subscribed and one
\* generateCaptions call per entry of the selection is made.
handleGenerate(a, r) ==
    IF a.selectedVideos = << >>
    THEN [r EXCEPT !.toast =
            Append(@, PlainToast("error", << "Please select a video first" >>, << >>))]
    ELSE IF a.apiKey = << >> /\ a.selectedModel = "whisper-1"
         THEN [r EXCEPT !.app.shouldGenerateAfterApiKey = TRUE,
                        !.app.isApiKeySettingsOpen = TRUE]
         ELSE LET b == Len(r.app.batches) + 1
              IN  [r EXCEPT
                     !.app.isGenerating = TRUE,
                     !.app.progressMap =
                         [v \in Videos |-> IF Includes1(a.selectedVideos, v)
                                           THEN Starting ELSE NoProgress],
                     !.app.requestIdToVideoPath = [k \in Ids |-> 0],
                     !.app.batches =
                         Append(@, [videos |-> a.selectedVideos,
                                    pendingVideos |-> Unique(a.selectedVideos),
                                    sub |-> r.ipc.subscriptions + 1,
                                    running |-> TRUE]),
                     !.app.calls =
                         @ \o [j \in DOMAIN a.selectedVideos |->
                                 [video |-> a.selectedVideos[j], batch |-> b,
                                  state |-> "pending", error |-> NoFriendly]],
                     !.ipc = onProgress(@, r.ipc.subscriptions + 1)]

\* handleSaveApiKey(apiKey): the trimmed key is set, and a deferred
\* generation is started by calling handleGenerate of the same render.
handleSaveApiKey(a, typed, r) ==
    LET saved == [r EXCEPT !.app.apiKey = Trim(typed)]
    IN  IF a.shouldGenerateAfterApiKey
        THEN handleGenerate(a, [saved EXCEPT !.app.shouldGenerateAfterApiKey = FALSE])
        ELSE saved

\* The handler batch b subscribed, on a message of the channel: a progress
\* event with an id is handled, whatever request the id is of. An id
\* without an entry in the map is given the first video still pending in b,
\* and the progress is shown on the video of the entry.
onProgressHandler(a, b, ev) ==
    LET known == a.requestIdToVideoPath[ev.id]
        pendingVideos == a.batches[b].pendingVideos
        takesPending == known = 0 /\ pendingVideos # << >>
        videoPath == IF known # 0 THEN known
                     ELSE IF takesPending THEN Head(pendingVideos) ELSE 0
    IN  IF ~(ev.event = "progress" /\ ev.id # NoId) \/ videoPath = 0
        THEN a
        ELSE [a EXCEPT !.requestIdToVideoPath[ev.id] = videoPath,
                       !.batches[b].pendingVideos = IF takesPending THEN Tail(@) ELSE @,
                       !.progressMap[videoPath] = Shown(ev.id)]

\* The handler ModelDownloader subscribed in its mount effect: setProgress of
\* the percentage of a progress event, which is not kept.
onDownloadProgress(a, ev) == a

\* The listeners of core:progress are called in turn with the message: the
\* listener of a batch calls the batch's handler, the first listener of the
\* channel is ModelDownloader's.
RECURSIVE Deliver(_, _, _)
Deliver(a, listeners, ev) ==
    IF listeners = << >>
    THEN a
    ELSE LET owners == { b \in DOMAIN a.batches : a.batches[b].sub = Head(listeners) }
         IN  IF owners = {}
             THEN Deliver(onDownloadProgress(a, ev), Tail(listeners), ev)
             ELSE Deliver(onProgressHandler(a, CHOOSE b \in owners : TRUE, ev),
                          Tail(listeners), ev)

\* The calls of batch b, in the order they were made.
CallsOf(a, b) == SelectSeq(a.calls, LAMBDA c : c.batch = b)

\* err.name || 'UNKNOWN_ERROR'.
NameOrUnknown(err) == IF err.name = "" THEN "UNKNOWN_ERROR" ELSE err.name

\* The toasts at the end of a batch, from the results of its calls.
BatchToasts(results) ==
    LET successful == SelectSeq(results, LAMBDA c : c.state = "fulfilled")
        failed == SelectSeq(results, LAMBDA c : c.state = "rejected")
        uniqueErrors == { NameOrUnknown(failed[j].error) : j \in DOMAIN failed }
    IN  (IF Len(successful) > 0
         THEN << PlainToast("success",
                            << "Generated ", ToString(Len(successful)),
                               " videos successfully!" >>, << >>) >>
         ELSE << >>)
        \o
        (IF Len(failed) = 0 THEN << >>
         ELSE IF Cardinality(uniqueErrors) = 1
              THEN << showErrorToast(failed[1].error, Len(failed)) >>
              ELSE << PlainToast("error",
                                 << "Failed to process ", ToString(Len(failed)), " videos" >>,
                                 << "Mixed errors occurred. Check settings and try again." >>) >>)

\* handleGenerate of batch b after its await: unsubscribe(), the videos the
\* batch was started with are "Complete", the toasts, the timer that clears
\* the progress, setIsGenerating(false). The results and the closure of the
\* batch are not kept after it.
afterAllSettled(b, r) ==
    LET batch == r.app.batches[b]
    IN  [r EXCEPT
           !.ipc = unsubscribe(@, batch.sub),
           !.app.progressMap =
               [v \in Videos |-> IF Includes1(batch.videos, v) THEN Complete ELSE @[v]],
           !.toast = @ \o BatchToasts(CallsOf(r.app, b)),
           !.app.clearTimers = @ + 1,
           !.app.calls =
               [j \in DOMAIN @ |->
                   IF @[j].batch = b
                   THEN [@[j] EXCEPT !.state = "settled", !.error = NoFriendly]
                   ELSE @[j]],
           !.app.batches[b] = [videos |-> << >>, pendingVideos |-> << >>,
                               sub |-> batch.sub, running |-> FALSE],
           !.app.isGenerating = FALSE]

\* What the actions of the App leave alone.
AppFrame ==
    UNCHANGED << issued, withProgress, pending, progressCallbacks, promise, link,
                 inFlight, timers, wire, procState, last, errorText, friendly, boot >>

\* The turn of a handler ends with the renderer as r.
Renders(r) ==
    /\ app' = r.app
    /\ ipc' = r.ipc
    /\ toast' = r.toast
    /\ AppFrame

\* A batch can be started: the batches of a run are at most MaxBatches.
RoomForBatch == Len(app.batches) < MaxBatches

\* The selection can take n more entries: it has at most MaxVideos.
RoomForVideos(n) == Len(app.selectedVideos) + n <= MaxVideos

\* The upload area, shown while no video is selected, is clicked:
\* handleVideoSelect opens the file dialog and awaits it.
PickVideos ==
    /\ app.selectedVideos = << >>
    /\ app.picking < MaxDialogs
    /\ Renders([Renderer EXCEPT !.app.picking = @ + 1])

\* A file dialog returns paths, or nothing: handleVideoSelect resumes in the
\* render of the click, whose selection was empty.
PickReturns(paths) ==
    /\ app.picking > 0
    /\ RoomForVideos(Len(paths))
    /\ Renders(handleVideoSelect(<< >>, paths, [Renderer EXCEPT !.app.picking = @ - 1]))

PickReturnsStep == \E paths \in PickedPaths : PickReturns(paths)

\* handleDrop: files are dropped on the window.
DropFiles(files) ==
    /\ RoomForVideos(Len(SelectSeq(files,
          LAMBDA f : f \in Videos /\ ~Includes1(app.selectedVideos, f))))
    /\ Renders(handleDrop(app, files, Renderer))

DropFilesStep == \E files \in DroppedFiles : DropFiles(files)

\* onRemove of a video of the list; the button of its card is disabled while
\* a progress is shown for the video.
RemoveVideo(v) ==
    /\ Includes1(app.selectedVideos, v)
    /\ app.progressMap[v] = NoProgress
    /\ Renders([Renderer EXCEPT !.app.selectedVideos = SelectSeq(@, LAMBDA p : p # v)])

RemoveVideoStep == \E v \in Videos : RemoveVideo(v)

\* onClearAll of the list: the button is shown with more than one video.
ClearAll ==
    /\ Len(app.selectedVideos) > 1
    /\ Renders([Renderer EXCEPT !.app.selectedVideos = << >>])

\* handleExportFormatToggle(formatId).
ToggleExportFormat(f) ==
    Renders([Renderer EXCEPT !.app.exportFormats =
                IF f \in @ THEN @ \ { f } ELSE @ \cup { f }])

ToggleExportFormatStep == \E f \in Formats : ToggleExportFormat(f)

\* The checkModelExists lookups of ModelDownloader's mount effect have all
\* answered: setModels(updated) replaces the list by the answers.
ModelsChecked(onDisk) ==
    /\ app.checking
    /\ Renders([Renderer EXCEPT !.app.checking = FALSE,
                                !.app.downloaded = onDisk])

ModelsCheckedStep == \E onDisk \in SUBSET LocalModels : ModelsChecked(onDisk)

\* A model of the list is clicked (handleSelect): a local model can be
\* clicked once downloaded and while it is not being downloaded; whisper-1
\* without a key opens the settings.
SelectModel(m) ==
    /\ m = "whisper-1" \/ m \in app.downloaded
    /\ app.downloading # m
    /\ IF m = "whisper-1" /\ app.apiKey = << >>
       THEN Renders([Renderer EXCEPT !.app.isApiKeySettingsOpen = TRUE])
       ELSE Renders([Renderer EXCEPT !.app.selectedModel = m])

SelectModelStep == \E m \in Models : SelectModel(m)

\* handleDownload up to its await: the download button of a local model
\* that is not downloaded is clicked.
DownloadModel(m) ==
    /\ m \in LocalModels \ app.downloaded
    /\ app.downloading # m
    /\ Len(app.downloads) < MaxDownloads
    /\ Renders([Renderer EXCEPT
                  !.app.downloading = m,
                  !.app.downloads = Append(@, [model |-> m, state |-> "pending"])])

DownloadModelStep == \E m \in Models : DownloadModel(m)

\* handleDownload after its await: rust.downloadModel of download j is
\* fulfilled or rejected.
DownloadSettles(j, ok) ==
    /\ j \in DOMAIN app.downloads
    /\ app.downloads[j].state = "pending"
    /\ LET m == app.downloads[j].model
           r == [Renderer EXCEPT !.app.downloads[j].state = "settled",
                                 !.app.downloading = NoModel]
       IN  IF ok
           THEN Renders([r EXCEPT
                           !.app.downloaded = @ \cup { m },
                           !.toast = << PlainToast("success",
                                          << m, " model downloaded successfully!" >>,
                                          << >>) >>])
           ELSE Renders([r EXCEPT
                           !.toast = << PlainToast("error",
                                          << "Failed to download ", m, " model" >>,
                                          << >>) >>])

DownloadSettlesStep ==
    \E j \in 1 .. MaxDownloads, ok \in BOOLEAN : DownloadSettles(j, ok)

\* handleDelete up to its await: the delete button of a downloaded model is
\* clicked and the question confirmed. The handler keeps the selectedModel
\* of its render.
DeleteModel(m) ==
    /\ m \in LocalModels \cap app.downloaded
    /\ app.downloading # m
    /\ Len(app.deleting) < MaxDeletes
    /\ Renders([Renderer EXCEPT
                  !.app.deleting =
                      Append(@, [model |-> m, selectedModel |-> app.selectedModel])])

DeleteModelStep == \E m \in Models : DeleteModel(m)

\* handleDelete after its await: rust.deleteModel of the j-th delete under
\* way is fulfilled, or rejected with an error of the given message. A
\* deleted model that was selected when the button was clicked gives way to
\* whisper-1.
DeleteSettles(j, ok, message) ==
    /\ j \in DOMAIN app.deleting
    /\ LET d == app.deleting[j]
           r == [Renderer EXCEPT
                   !.app.deleting = SubSeq(@, 1, j - 1) \o SubSeq(@, j + 1, Len(@))]
       IN  IF ok
           THEN /\ message = << >>
                /\ Renders([r EXCEPT
                              !.app.downloaded = @ \ { d.model },
                              !.app.selectedModel =
                                  IF d.selectedModel = d.model THEN "whisper-1" ELSE @,
                              !.toast = << PlainToast("success",
                                             << d.model, " model deleted successfully" >>,
                                             << >>) >>])
           ELSE Renders([r EXCEPT
                           !.toast = << PlainToast("error",
                                          << "Failed to delete ", d.model, " model: " >>
                                              \o (IF message = << >>
                                                  THEN << "Unknown error" >> ELSE message),
                                          << >>) >>])

DeleteSettlesStep ==
    \E j \in 1 .. MaxDeletes, ok \in BOOLEAN, message \in DeleteErrors :
        DeleteSettles(j, ok, message)

\* The Generate button, enabled with a video and an export format selected
\* and isGenerating false.
PressGenerate ==
    /\ app.selectedVideos # << >>
    /\ app.exportFormats # {}
    /\ ~app.isGenerating
    /\ StartsBatch(app) => RoomForBatch
    /\ Renders(handleGenerate(app, Renderer))

\* The settings are opened from the sidebar.
OpenApiKeySettings ==
    /\ ~app.isApiKeySettingsOpen
    /\ Renders([Renderer EXCEPT !.app.isApiKeySettingsOpen = TRUE])

\* The settings are closed without saving: Cancel, Escape, a click outside.
CloseApiKeySettings ==
    /\ app.isApiKeySettingsOpen
    /\ Renders([Renderer EXCEPT !.app.isApiKeySettingsOpen = FALSE])

\* The Save button of the settings: onSave(apiKeyState) and then
\* onOpenChange(false).
SaveApiKey(typed) ==
    /\ app.isApiKeySettingsOpen
    /\ (app.shouldGenerateAfterApiKey /\ StartsBatch(app)) => RoomForBatch
    /\ Renders([handleSaveApiKey(app, typed, Renderer)
                  EXCEPT !.app.isApiKeySettingsOpen = FALSE])

SaveApiKeyStep == \E typed \in TypedKeys : SaveApiKey(typed)

\* The messages that can arrive on core:progress: a progress event of a
\* request that has not been answered yet (a generateCaptions call, the
\* download of a model), a progress event without an id, another event.
Messages ==
    { [event |-> "progress", id |-> k] :
        k \in { k \in DOMAIN app.calls : app.calls[k].state = "pending" } }
    \cup { [event |-> "progress", id |-> DownloadId(j)] :
        j \in { j \in DOMAIN app.downloads : app.downloads[j].state = "pending" } }
    \cup { [event |-> "progress", id |-> NoId], [event |-> "log", id |-> NoId] }

\* core:progress carries a message to every listener of the channel.
ProgressEvent(ev) ==
    Renders([Renderer EXCEPT !.app = Deliver(@, ipc.listeners, ev),
                             !.ipc = emit(@)])

ProgressEventStep == \E ev \in Messages : ProgressEvent(ev)

\* The call of request k is fulfilled or rejected; with the last call of
\* its batch Promise.allSettled resumes the handleGenerate of the batch.
CallSettles(k, state, error) ==
    /\ k \in DOMAIN app.calls
    /\ app.calls[k].state = "pending"
    /\ (state = "fulfilled") = (error = NoFriendly)
    /\ LET b == app.calls[k].batch
           r == [Renderer EXCEPT !.app.calls[k].state = state,
                                 !.app.calls[k].error = error]
       IN  IF \A j \in DOMAIN r.app.calls :
                  r.app.calls[j].batch = b => r.app.calls[j].state # "pending"
           THEN Renders(afterAllSettled(b, r))
           ELSE Renders(r)

CallSettlesStep ==
    \E k \in RequestIds, state \in { "fulfilled", "rejected" },
       error \in CallErrors \cup { NoFriendly } : CallSettles(k, state, error)

\* A timer set at the end of a batch fires: the progress and the map of
\* request ids are emptied.
ClearTimer ==
    /\ app.clearTimers > 0
    /\ Renders([Renderer EXCEPT !.app.clearTimers = @ - 1,
                                !.app.requestIdToVideoPath = [k \in Ids |-> 0],
                                !.app.progressMap = [v \in Videos |-> NoProgress]])

\* The App is mounted: the key and the settings are the saved ones (the
\* default settings when none are saved), ModelDownloader has subscribed its
\* progress handler and asked for the local models.
AppInit ==
    /\ BridgeInit
    /\ errorText = << >>
    /\ friendly = NoFriendly
    /\ boot = Booted
    /\ toast = NoToast
    /\ ipc = onProgress(NoIpc, 1)
    /\ \E key \in { Trim(typed) : typed \in TypedKeys },
          exportFormats \in SUBSET Formats, selectedModel \in Models :
          app = MountedApp(key, exportFormats, selectedModel)

AppNext ==
    \/ PickVideos
    \/ PickReturnsStep
    \/ DropFilesStep
    \/ RemoveVideoStep
    \/ ClearAll
    \/ ToggleExportFormatStep
    \/ ModelsCheckedStep
    \/ SelectModelStep
    \/ DownloadModelStep
    \/ DownloadSettlesStep
    \/ DeleteModelStep
    \/ DeleteSettlesStep
    \/ PressGenerate
    \/ OpenApiKeySettings
    \/ CloseApiKeySettings
    \/ SaveApiKeyStep
    \/ ProgressEventStep
    \/ CallSettlesStep
    \/ ClearTimer

AppSpec == AppInit /\ [][AppNext]_vars

\* The App while the settings of the key are left alone and the videos come
\* by drops: the batch, the progress of its requests and of the downloads,
\* the list of models.
BatchNext ==
    \/ DropFilesStep
    \/ RemoveVideoStep
    \/ ClearAll
    \/ ModelsCheckedStep
    \/ SelectModelStep
    \/ DownloadModelStep
    \/ DownloadSettlesStep
    \/ DeleteModelStep
    \/ DeleteSettlesStep
    \/ PressGenerate
    \/ ProgressEventStep
    \/ CallSettlesStep
    \/ ClearTimer

BatchSpec == AppInit /\ [][BatchNext]_vars

\* The App while no file is dropped and no model is deleted: the file
\* dialog, the settings of the key, the deferred generation, the batch.
SettingsNext ==
    \/ PickVideos
    \/ PickReturnsStep
    \/ RemoveVideoStep
    \/ ClearAll
    \/ ToggleExportFormatStep
    \/ ModelsCheckedStep
    \/ SelectModelStep
    \/ DownloadModelStep
    \/ DownloadSettlesStep
    \/ PressGenerate
    \/ OpenApiKeySettings
    \/ CloseApiKeySettings
    \/ SaveApiKeyStep
    \/ ProgressEventStep
    \/ CallSettlesStep
    \/ ClearTimer

SettingsSpec == AppInit /\ [][SettingsNext]_vars

TypeOK ==
    /\ issued \in 0 .. MaxCalls
    /\ withProgress \subseteq 1 .. issued
    /\ pending \subseteq 1 .. issued
    /\ progressCallbacks \subseteq 1 .. issued
    /\ inFlight \subseteq 1 .. issued
    /\ timers \subseteq 1 .. issued
    /\ \A i \in CallIds :
          /\ promise[i].state \in { "none", "pending", "resolved", "rejected", "threw" }
          /\ link[i].st \in { "none", "pending", "fulfilled", "rejected" }
    /\ procState \in { "none", "running", "exited", "errored" }
    /\ boot.phase \in { "new", "started", "failed" }
    /\ boot.probe \in Probes
    /\ boot.spawn \in SpawnOutcomes
    /\ boot.binPath \in 0 .. NumPaths
    /\ errorText \in Texts
    /\ friendly.name \in { "", "UNKNOWN_ERROR" } \cup { FriendlyRules[k].name : k \in DOMAIN FriendlyRules }

\* ------------------------------------------------------------------ claims

Settled(i) == promise[i].state \in { "resolved", "rejected" }

\* C1: a promise that has settled never changes again, and a promise settled
\* in the dispatch of a line is settled by a line that carries the call's own
\* id, with the payload of that line.
C1_SettlesOnceFromOwnId ==
    [][\A i \in CallIds :
          /\ Settled(i) => promise'[i] = promise[i]
          /\ (promise'[i] # promise[i] /\ last'.kind = "line") =>
                /\ last'.id = i
                /\ promise'[i].from = i
                /\ \E msg \in ProtocolLines(wire) :
                      /\ msg.id = i
                      /\ Line(msg)
                      /\ \/ promise'[i] = [state |-> "resolved", from |-> i,
                                           value |-> ResultValue(msg.result)]
                         \/ promise'[i] = [state |-> "rejected", from |-> i,
                                           value |-> FriendlyValue(
                                               createFriendlyError(msg.error.text))]]_vars

\* Three calls are out at once and the worker has answered the last one first.
C1_Witness ==
    /\ issued = 3
    /\ promise[1].state = "pending"
    /\ promise[2].state = "pending"
    /\ promise[3].state = "resolved"
    /\ promise[3].from = 3
    /\ last.kind = "line"

\* C2 (as claimed): a call is rejected with a write error only when it is the
\* error of its own write.
C2_OnlyTheFailedWriteRejects ==
    \A i \in CallIds :
        (promise[i].state = "rejected" /\ promise[i].value.t = "writeError")
            => promise[i].value.writeOf = i

\* C3 (as claimed): a call that is pending when the worker has exited does
\* not stay pending forever: it is eventually failed (or settled by a line
\* the worker had written before it exited).
C3_PendingFailedAfterExit ==
    \A i \in CallIds :
        (procState = "exited" /\ promise[i].state = "pending")
            ~> (promise[i].state # "pending")

\* C4: a progress handler is invoked only by a progress line that carries the
\* id of its own call, and only while that call's promise is pending.
C4_ProgressOnlyWhilePending ==
    [][(last'.kind = "line" /\ last'.invoked # 0) =>
          /\ last'.invoked = last'.id
          /\ last'.shape = "progress"
          /\ last'.invoked \in withProgress
          /\ promise[last'.invoked].state = "pending"
          /\ promise'[last'.invoked].state = "pending"]_vars

\* A progress line for a call that had a handler and has settled was dropped.
C4_Witness ==
    /\ last.kind = "line"
    /\ last.shape = "progress"
    /\ last.id \in withProgress
    /\ Settled(last.id)
    /\ last.invoked = 0

\* C5: the request lines handed to stdin are in the order of their calls,
\* each at most once.
C5_WireInCallOrder ==
    \A a, b \in DOMAIN wire : a < b => wire[a] < wire[b]

\* The third call's line was handed to stdin after it had waited in the chain
\* behind the first two.
C5_Witness ==
    /\ wire = << 1, 2, 3 >>
    /\ last.kind = "timer"
    /\ last.id = 2

\* C6: at most one write is in flight, and a write begins only in the turn of
\* a call() that finds the chain idle or in the turn of the grace timer of the
\* write before it, never while a callback or a grace timer is outstanding.
C6_OneWriteAtATime ==
    [][/\ Cardinality(inFlight') <= 1
       /\ wire' # wire =>
             /\ inFlight = {}
             /\ timers' = {}
             /\ last'.kind \in { "call", "timer" }
             /\ last'.kind = "call" => timers = {}
             /\ last'.kind = "timer" => timers = { last'.id }]_vars

\* The second write has begun, in the turn of the first write's grace timer.
C6_Witness ==
    /\ last.kind = "timer"
    /\ last.id = 1
    /\ inFlight = { 2 }
    /\ wire = << 1, 2 >>

\* C7: when the callback of a call's write reports an error, the call's id is
\* in neither table afterwards, and its promise, if it was pending, is
\* rejected with that error.
C7_WriteFailureRejectsAndCleans ==
    [][(last'.kind = "writeCallback" /\ ~last'.ok) =>
          LET j == last'.id
          IN  /\ j \notin pending'
              /\ j \notin progressCallbacks'
              /\ promise'[j].state # "pending"
              /\ promise[j].state = "pending" =>
                    promise'[j] = [state |-> "rejected", from |-> 0,
                                   value |-> WriteError(j)]]_vars

\* The write of a call made with a handler has just failed.
C7_Witness ==
    /\ last.kind = "writeCallback"
    /\ ~last.ok
    /\ last.id \in withProgress
    /\ promise[last.id].state = "rejected"
    /\ promise[last.id].value = WriteError(last.id)
    /\ last.id \notin pending \cup progressCallbacks

\* C8 (as claimed): every id in the progress-subscription table is in the
\* correlation table.
C8_ProgressSubsetOfPending == progressCallbacks \subseteq pending

\* The messages {id, error} whose error is a string.
IsErrorMessage(msg) ==
    /\ msg.json
    /\ msg.event = "none"
    /\ msg.result = "undefined"
    /\ msg.error.k = "string"

\* C9 (as claimed): the dispatch of a message {id, error} with a pending id
\* and any string as error rejects the call with the classified error and
\* removes the id from both tables.
C9_ErrorMessageRejects ==
    [][(last'.kind = "line" /\ last'.id \in pending) =>
        \A msg \in Lines(wire) :
          (IsErrorMessage(msg) /\ msg.id = last'.id /\ Line(msg)) =>
              /\ promise'[msg.id] =
                    [state |-> "rejected", from |-> msg.id,
                     value |-> FriendlyValue(createFriendlyError(msg.error.text))]
              /\ msg.id \notin pending'
              /\ msg.id \notin progressCallbacks']_vars

\* The messages {id, result}, whatever else they carry.
IsResultMessage(msg) ==
    /\ msg.json
    /\ msg.event = "none"
    /\ msg.result # "undefined"

\* C10: the dispatch of a message {id, result} with a pending id resolves the
\* call with that result, whatever JSON value it is, and removes the id from
\* both tables.
C10_ResultMessageResolves ==
    [][(last'.kind = "line" /\ last'.id \in pending) =>
        \A msg \in Lines(wire) :
          (IsResultMessage(msg) /\ msg.id = last'.id /\ Line(msg)) =>
              /\ promise[msg.id].state = "pending"
              /\ promise'[msg.id] =
                    [state |-> "resolved", from |-> msg.id,
                     value |-> ResultValue(msg.result)]
              /\ msg.id \notin pending'
              /\ msg.id \notin progressCallbacks']_vars

\* A call made with a handler was just resolved with a falsy result.
C10_Witness ==
    /\ last.kind = "line"
    /\ last.shape = "result"
    /\ last.id \in withProgress
    /\ promise[last.id].state = "resolved"
    /\ promise[last.id].value.result \in { "null", "false", "zero", "empty" }
    /\ last.id \notin pending \cup progressCallbacks

\* The progress-shaped messages: event is "progress" and the id is truthy.
IsProgressMessage(msg) ==
    /\ msg.json
    /\ msg.event = "progress"
    /\ msg.id # 0

\* C11: the dispatch of a progress message whose id has a registered handler
\* invokes that handler, once, and changes neither table nor any promise,
\* whatever else the message carries.
C11_ProgressInvokesAndKeeps ==
    [][(last'.kind = "line" /\ last'.id \in progressCallbacks) =>
        \A msg \in Lines(wire) :
          (IsProgressMessage(msg) /\ msg.id = last'.id /\ Line(msg)) =>
              /\ last'.invoked = msg.id
              /\ last'.shape = "progress"
              /\ pending' = pending
              /\ progressCallbacks' = progressCallbacks
              /\ promise' = promise]_vars

\* A progress line has reached the handler of a pending call while two
\* requests are on the wire.
C11_Witness ==
    /\ last.kind = "line"
    /\ last.shape = "progress"
    /\ last.invoked = last.id
    /\ last.id \in progressCallbacks \cap pending
    /\ promise[last.id].state = "pending"
    /\ Len(wire) = 2

\* C12: the dispatch of a line that is no JSON changes neither table, no
\* promise and nothing of the write chain and invokes no handler, and the
\* line dispatched right after it is handled as any other: a result or error
\* line for a pending call settles it, a progress line for a registered
\* handler invokes it.
C12_GarbageIsDropped ==
    [][/\ (last'.kind = "line" /\ last'.shape = "garbage") =>
             /\ last'.invoked = 0
             /\ UNCHANGED << pending, progressCallbacks, promise, link, inFlight,
                             timers, wire >>
       /\ (last.shape = "garbage" /\ last'.kind = "line") =>
             /\ (last'.shape \in { "result", "error" } /\ last'.id \in pending) =>
                    /\ promise'[last'.id].state \in { "resolved", "rejected" }
                    /\ promise'[last'.id].from = last'.id
             /\ (last'.shape = "progress" /\ last'.id \in progressCallbacks) =>
                    last'.invoked = last'.id]_vars

\* A line that is no JSON was dropped while a call with a handler was pending.
C12_Witness ==
    /\ last.kind = "line"
    /\ last.shape = "garbage"
    /\ pending \cap progressCallbacks # {}
    /\ inFlight # {}

\* C13: the dispatch of a progress, result or error line whose id is not in
\* the correlation table (no call generated it, or its call has settled)
\* changes no promise and neither table and invokes no handler.
C13_UnknownIdIsIgnored ==
    [][(/\ last'.kind = "line"
        /\ last'.shape \in { "progress", "result", "error" }
        /\ last'.id \notin pending) =>
            /\ last'.invoked = 0
            /\ UNCHANGED << pending, progressCallbacks, promise, link, inFlight,
                            timers, wire >>]_vars

\* A terminal line arrived for a call that had settled, while another call
\* with a handler was pending.
C13_Witness ==
    /\ last.kind = "line"
    /\ last.shape \in { "result", "error" }
    /\ last.id \in CallIds
    /\ Settled(last.id)
    /\ promise[last.id].from # last.id
    /\ pending \cap progressCallbacks # {}

\* A progress line with an id no call generated was dropped while a handler
\* was registered.
C13_WitnessNeverIssued ==
    /\ last.kind = "line"
    /\ last.shape = "progress"
    /\ last.id = UnknownId
    /\ progressCallbacks # {}

\* C14: when a request line is handed to stdin, its id is in the correlation
\* table, and in the progress-subscription table if the call was given a
\* handler: it was put there in an earlier turn when the write waited in the
\* chain, and it is still there at the end of the turn of the write.
C14_RegisteredBeforeWrite ==
    [][wire' # wire =>
          LET i == wire'[Len(wire')]
          IN  /\ wire' = Append(wire, i)
              /\ i \in pending'
              /\ promise'[i].state = "pending"
              /\ i \in withProgress' => i \in progressCallbacks'
              /\ last'.kind # "call" =>
                    /\ i \in pending
                    /\ i \in withProgress => i \in progressCallbacks]_vars

\* The line of a call made with a handler was handed to stdin in the turn of
\* the grace timer of the write before it.
C14_Witness ==
    /\ last.kind = "timer"
    /\ wire # << >>
    /\ wire[Len(wire)] \in inFlight \cap withProgress \cap pending \cap progressCallbacks
    /\ wire[Len(wire)] = last.id + 1

\* C15: between turns, an id is in the correlation table exactly when the
\* promise of its call is pending, and the id of a settled call is in neither
\* table; an id leaves a table only in the turn that settles its call: the
\* dispatch of a result or error line with that id, or a write callback that
\* reports an error.
C15_PendingIffUnsettled ==
    /\ [](\A i \in CallIds :
            /\ i \in pending <=> promise[i].state = "pending"
            /\ Settled(i) => i \notin progressCallbacks)
    /\ [][\A i \in CallIds :
            ((i \in pending /\ i \notin pending')
                \/ (i \in progressCallbacks /\ i \notin progressCallbacks')) =>
                /\ promise[i].state = "pending"
                /\ \/ /\ last'.kind = "line"
                      /\ last'.id = i
                      /\ last'.shape = "result"
                      /\ promise'[i].state = "resolved"
                   \/ /\ last'.kind = "line"
                      /\ last'.id = i
                      /\ last'.shape = "error"
                      /\ promise'[i].state = "rejected"
                   \/ /\ last'.kind = "writeCallback"
                      /\ ~last'.ok
                      /\ promise'[i].state = "rejected"
                      /\ promise'[i].value = WriteError(last'.id)]_vars

\* One call was resolved by a result line, one rejected by an error line and
\* one by the failure of its write, and both tables are empty.
C15_Witness ==
    /\ promise[1].state = "resolved"
    /\ promise[2].state = "rejected"
    /\ promise[2].from = 2
    /\ promise[3].state = "rejected"
    /\ promise[3].value = WriteError(3)
    /\ withProgress = CallIds
    /\ pending = {}
    /\ progressCallbacks = {}

\* C16 (as claimed): when every write succeeds and the worker emits a result
\* or an error message for every request line it was sent, every call that is
\* pending is eventually settled.
C16_EveryCallSettles ==
    \A i \in CallIds : (promise[i].state = "pending") ~> Settled(i)

\* C17: a result or error line for a pending call settles that call in the
\* turn of its dispatch, whichever other calls are pending, and changes no
\* other promise: calls settle in the order of the worker's terminal lines.
C17_SettlesInArrivalOrder ==
    [][(/\ last'.kind = "line"
        /\ last'.shape \in { "result", "error" }
        /\ last'.id \in pending) =>
            /\ promise[last'.id].state = "pending"
            /\ promise'[last'.id].state =
                  IF last'.shape = "result" THEN "resolved" ELSE "rejected"
            /\ promise'[last'.id].from = last'.id
            /\ \A j \in CallIds \ { last'.id } : promise'[j] = promise[j]]_vars

\* The worker answered the second call, then the first: the second settled
\* first, the first has just settled, and the third is pending.
C17_Witness ==
    /\ promise[2].state = "rejected"
    /\ promise[2].from = 2
    /\ promise[1].state = "resolved"
    /\ promise[1].from = 1
    /\ last.kind = "line"
    /\ last.id = 1
    /\ last.shape = "result"
    /\ promise[3].state = "pending"

\* The taxonomy table of section 7, row by row: the kind, the name that
\* stands for it in an Error, and the trigger substrings as the table lists them.
TaxonomyTable ==
    << [kind |-> "CredentialsMissing", name |-> "API_KEY_MISSING",
        triggers |-> { <<"API key not provided">>, <<"didn't provide an API key">> }],
       [kind |-> "CredentialsInvalid", name |-> "API_KEY_INVALID",
        triggers |-> { <<"401 ", "Unauthorized">>, <<"Unauthorized">> }],
       [kind |-> "LocalResourceMissing", name |-> "NO_LOCAL_MODELS",
        triggers |-> { <<"No whisper models found">>,
                       <<"No local whisper models available">> }],
       [kind |-> "DependencyMissing", name |-> "BINARY_NOT_FOUND",
        triggers |-> { <<"whisper.cpp binary not found">>, <<"FFmpeg not found">> }],
       [kind |-> "NetworkFailure", name |-> "NETWORK_ERROR",
        triggers |-> { <<"Network">>, <<"fetch">>, <<"ENOTFOUND">> }],
       [kind |-> "RateLimited", name |-> "RATE_LIMIT",
        triggers |-> { <<"rate limit">>, <<"Too Many Requests">> }],
       [kind |-> "QuotaExhausted", name |-> "QUOTA_EXCEEDED",
        triggers |-> { <<"insufficient_", "quota">>, <<"quota">> }],
       [kind |-> "InputNotFound", name |-> "FILE_NOT_FOUND",
        triggers |-> { <<"file not found">>, <<"No such file">> }],
       [kind |-> "NativeDependencyMissing", name |-> "BINARY_DEP_MISSING",
        triggers |-> { <<"Library not loaded">>, <<"image not found">> }] >>

\* The table with the two trigger phrases the code spells out in full.
AmendedTable ==
    [TaxonomyTable EXCEPT
        ![1].triggers = { <<"API key not provided">>,
                          <<"You ", "didn't provide an API key">> },
        ![9].triggers = { <<"dyld: ", "Library not loaded">>, <<"image not found">> }]

RowMatches(table, k, text) == \E trig \in table[k].triggers : Includes(text, trig)

\* The name of the first row of the table, in table order, one of whose
\* triggers occurs in the text; that of Unknown when there is none.
TableName(table, text) ==
    IF \E k \in DOMAIN table : RowMatches(table, k, text)
    THEN LET k == CHOOSE r \in DOMAIN table :
                      /\ RowMatches(table, r, text)
                      /\ \A q \in 1 .. r - 1 : ~RowMatches(table, q, text)
         IN  table[k].name
    ELSE "UNKNOWN_ERROR"

\* C18 (as claimed): createFriendlyError returns the kind of the first row of
\* the taxonomy table with a trigger in the text, Unknown when no row has
\* one, with the triggers as the table lists them.
C18_ClassifiesByTable ==
    friendly # NoFriendly => friendly.name = TableName(TaxonomyTable, errorText)

\* C18 (amended): the same, with "You didn't provide an API key" and
\* "dyld: Library not loaded" as the second trigger of CredentialsMissing and
\* the first of NativeDependencyMissing.
C18_ClassifiesByAmendedTable ==
    friendly # NoFriendly => friendly.name = TableName(AmendedTable, errorText)

\* A text with the triggers of three rows, the first row last, was classified
\* by the first of the rows.
C18_Witness ==
    /\ errorText = <<"image not found", "quota", "Network">>
    /\ friendly.name = "NETWORK_ERROR"

\* C19 (as claimed): every text that contains "401 Unauthorized" is
\* classified API_KEY_INVALID, whatever else it contains.
C19_UnauthorizedIsInvalidKey ==
    (friendly # NoFriendly /\ Includes(errorText, <<"401 ", "Unauthorized">>)) =>
        friendly.name = "API_KEY_INVALID"

\* C19 (amended): every text that contains "401 Unauthorized" and neither
\* "API key not provided" nor "You didn't provide an API key" is classified
\* API_KEY_INVALID, and a text with one of those two is API_KEY_MISSING.
C19_UnauthorizedWithoutMissingKey ==
    (friendly # NoFriendly /\ Includes(errorText, <<"401 ", "Unauthorized">>)) =>
        friendly.name =
            IF \/ Includes(errorText, <<"API key not provided">>)
               \/ Includes(errorText, <<"You ", "didn't provide an API key">>)
            THEN "API_KEY_MISSING"
            ELSE "API_KEY_INVALID"

\* A text with "401 Unauthorized" after a trigger of a later row was
\* classified API_KEY_INVALID.
C19_Witness ==
    /\ errorText = <<"Too Many Requests", "401 ", "Unauthorized">>
    /\ friendly.name = "API_KEY_INVALID"

\* The triggers of the rows above QuotaExhausted, as the code has them.
EarlierThanQuota(text) ==
    \E k \in 1 .. 6 : RowMatches(AmendedTable, k, text)

\* C20 (as claimed): every text that contains "insufficient_quota" is
\* classified QUOTA_EXCEEDED, whatever else it contains.
C20_InsufficientQuotaIsQuota ==
    (friendly # NoFriendly /\ Includes(errorText, <<"insufficient_", "quota">>)) =>
        friendly.name = "QUOTA_EXCEEDED"

\* C20 (amended): every text that contains "insufficient_quota" and no
\* trigger of the six rows above QuotaExhausted is classified QUOTA_EXCEEDED,
\* and a text with such a trigger is not.
C20_InsufficientQuotaWithoutEarlier ==
    (friendly # NoFriendly /\ Includes(errorText, <<"insufficient_", "quota">>)) =>
        (friendly.name = "QUOTA_EXCEEDED" <=> ~EarlierThanQuota(errorText))

\* A text with "insufficient_quota" after a trigger of a later row was
\* classified QUOTA_EXCEEDED.
C20_Witness ==
    /\ errorText = <<"No such file", "insufficient_", "quota">>
    /\ friendly.name = "QUOTA_EXCEEDED"

\* C21: a text with no trigger phrase in it is classified UNKNOWN_ERROR, and
\* the message of the Error is "An error occurred: " followed by the text,
\* unchanged.
C21_UnknownKeepsText ==
    (friendly # NoFriendly
        /\ \A k \in DOMAIN AmendedTable : ~RowMatches(AmendedTable, k, errorText)) =>
            /\ friendly.name = "UNKNOWN_ERROR"
            /\ friendly.message = <<"An error occurred: ">> \o errorText
            /\ Includes(friendly.message, errorText)

\* A text made of pieces of trigger phrases that form no trigger was
\* classified UNKNOWN_ERROR.
C21_Witness ==
    /\ errorText = <<"dyld: ", "boom", "You ">>
    /\ friendly.name = "UNKNOWN_ERROR"
    /\ friendly.message = <<"An error occurred: ", "dyld: ", "boom", "You ">>

\* The trigger phrases of the chain, each as a text of its own.
TriggerTexts == UNION { FriendlyRules[k].triggers : k \in DOMAIN FriendlyRules }

\* C22: the Error of a text classified to a kind other than UNKNOWN_ERROR is
\* equal, name and message, to the Error of every trigger phrase of that
\* kind (so any two texts of one kind give equal Errors), and no phrase of
\* the text is part of its message.
C22_SameKindSameError ==
    (friendly # NoFriendly /\ friendly.name # "UNKNOWN_ERROR") =>
        /\ \E other \in TriggerTexts : createFriendlyError(other).name = friendly.name
        /\ \A other \in TriggerTexts :
              createFriendlyError(other).name = friendly.name =>
                  createFriendlyError(other) = friendly
        /\ \A k \in DOMAIN errorText : ~Includes(friendly.message, << errorText[k] >>)

\* A text with a trigger between two other phrases was classified by it.
C22_Witness ==
    /\ errorText = <<"boom", "FFmpeg not found", "You ">>
    /\ friendly.name = "BINARY_NOT_FOUND"
    /\ friendly.message = <<"System components not found. Try reinstalling the application.">>

\* C23: whatever the tables hold, whichever call the message names and
\* whatever was classified before, the Error a call is rejected with in the
\* error branch is the classification of the text of that message alone:
\* its name is that of the first row with a trigger in the text, its message
\* the one createFriendlyError gives the text.
C23_ClassificationOfTextAlone ==
    [][(last'.kind = "line" /\ last'.shape = "error" /\ last'.id \in pending) =>
        \A msg \in Lines(wire) :
          (/\ msg.id = last'.id
           /\ Shape(msg) = "error"
           /\ msg.error.k = "string"
           /\ Line(msg)) =>
              /\ promise'[msg.id].state = "rejected"
              /\ promise'[msg.id].value.name = TableName(AmendedTable, msg.error.text)
              /\ promise'[msg.id].value.message =
                    createFriendlyError(msg.error.text).message]_vars

\* The second call was rejected with UNKNOWN_ERROR after the first had been
\* rejected with API_KEY_INVALID.
C23_Witness ==
    /\ promise[1].state = "rejected"
    /\ promise[1].value.name = "API_KEY_INVALID"
    /\ promise[2].state = "rejected"
    /\ promise[2].value.name = "UNKNOWN_ERROR"
    /\ promise[2].value.message = <<"An error occurred: ", "boom">>
    /\ last.kind = "line"
    /\ last.id = 2

\* C24 (as claimed): when the spawn of the worker fails, by spawn throwing or
\* by the child's 'error' event, the constructor throws.
C24_SpawnFailureThrows ==
    (boot.phase # "new" /\ boot.spawn # "ok") => boot.thrown

\* The candidate that exists and has no existing candidate before it; the
\* first candidate when none exists.
FirstExisting(probe) ==
    IF \E q \in Paths : probe[q] = "exists"
    THEN CHOOSE q \in Paths :
            /\ probe[q] = "exists"
            /\ \A r \in 1 .. q - 1 : probe[r] # "exists"
    ELSE 1

\* C26: start() picks the first candidate path, in list order, that exists,
\* the first of the list when none exists, and calls spawn with the path
\* it picked.
C26_FirstExistingPath ==
    boot.phase # "new" =>
        /\ boot.binPath = FirstExisting(boot.probe)
        /\ boot.spawned = boot.binPath
        /\ boot.spawned \in Paths

\* The third candidate was picked: the first is missing, the probe of the
\* second raised, and later candidates exist as well.
C26_Witness ==
    /\ boot.phase = "started"
    /\ boot.probe[1] = "missing"
    /\ boot.probe[2] = "throws"
    /\ boot.probe[3] = "exists"
    /\ boot.probe[5] = "exists"
    /\ boot.binPath = 3

\* No candidate exists and spawn was called with the first.
C26_WitnessNoneExists ==
    /\ boot.phase # "new"
    /\ \A q \in Paths : boot.probe[q] # "exists"
    /\ boot.spawned = 1

\* C25: an id enters a table only in the turn of a call(), it is the id
\* that call generated, and no earlier call() generated the same id, whether
\* the earlier call is pending or has settled.
C25_IdsNeverReused ==
    [][/\ (pending' \ pending) \cup (progressCallbacks' \ progressCallbacks) # {} =>
             /\ last'.kind = "call"
             /\ (pending' \ pending) \cup (progressCallbacks' \ progressCallbacks)
                    = { last'.id }
       /\ last'.kind = "call" =>
             /\ last'.id \notin 1 .. issued
             /\ promise[last'.id].state = "none"
             /\ link[last'.id].st = "none"]_vars

\* The third call was registered after the first had settled.
C25_Witness ==
    /\ last.kind = "call"
    /\ last.id = 3
    /\ 3 \in pending
    /\ Settled(1)
    /\ 1 \notin pending
    /\ 2 \in pending

\* The names of the ten kinds of the taxonomy.
TaxonomyNames ==
    { TaxonomyTable[k].name : k \in DOMAIN TaxonomyTable } \cup { "UNKNOWN_ERROR" }

\* C27 (as claimed): every error a call's promise is rejected with is a
\* classified Error whose name is one of the ten kinds, also when the cause
\* is a failed write or a process that is not available.
C27_RejectionsCarryAKind ==
    \A i \in CallIds :
        promise[i].state = "rejected" =>
            /\ promise[i].value.t = "error"
            /\ promise[i].value.name \in TaxonomyNames

\* The calls whose own write failed.
FailedWrites == { j \in CallIds : link[j].st = "rejected" /\ link[j].err = WriteError(j) }

\* C28: once the write of a call f has failed no line is handed to stdin any
\* more, no other write fails, and every call that was queued behind f or is
\* made afterwards has its link and its promise rejected with the error of
\* f's write and is in neither table.
C28_ChainStaysFailed ==
    /\ [](/\ Cardinality(FailedWrites) <= 1
          /\ \A f \in FailedWrites : \A i \in CallIds :
                (i > f /\ link[i].st # "none") =>
                    /\ link[i] = [st |-> "rejected", err |-> WriteError(f)]
                    /\ promise[i] = [state |-> "rejected", from |-> 0,
                                      value |-> WriteError(f)]
                    /\ i \notin pending \cup progressCallbacks
                    /\ \A k \in DOMAIN wire : wire[k] # i)
    /\ [][FailedWrites # {} => (wire' = wire /\ inFlight' = {} /\ timers' = {})]_vars

\* The first write failed with the second call queued behind it, and the
\* third call was made afterwards: both are rejected with the first's error.
C28_Witness ==
    /\ FailedWrites = { 1 }
    /\ wire = << 1 >>
    /\ promise[2].value = WriteError(1)
    /\ promise[3].value = WriteError(1)
    /\ withProgress = { 2, 3 }
    /\ last.kind = "call"
    /\ last.id = 3

OnWire(i) == \E k \in DOMAIN wire : wire[k] = i

\* C29: while every write's callback fires without an error, the line of
\* every request that call() chained to the write lock is eventually handed
\* to stdin.
C29_EveryRequestIsWritten ==
    \A i \in CallIds : (link[i].st # "none") ~> OnWire(i)

\* Both requests were written and both writes have completed, the second
\* after it had waited for the first.
C29_Witness ==
    /\ wire = << 1, 2 >>
    /\ link[1].st = "fulfilled"
    /\ link[2].st = "fulfilled"
    /\ inFlight = {}
    /\ timers = {}

\* The write of call i has succeeded: its callback came without an error.
WriteSucceeded(i) == i \in timers \/ link[i].st = "fulfilled"

\* A pending call whose write has succeeded changes state only in the turn
\* of a line that carries its id.
PendingUntilItsLine ==
    \A i \in CallIds :
        (promise[i].state = "pending" /\ WriteSucceeded(i) /\ promise'[i] # promise[i]) =>
            (last'.kind = "line" /\ last'.id = i)

\* C30 (as claimed): the turns of the child's 'exit' and 'error' events and
\* the turn of a timer change no promise, neither table and nothing of the
\* write chain; and a pending call whose write has succeeded stays pending
\* until a line carries its id.
C30_LifecycleChangesNothing ==
    [][/\ last'.kind \in { "exit", "error", "timer" } =>
             UNCHANGED << pending, progressCallbacks, promise, link, inFlight,
                          timers, wire >>
       /\ PendingUntilItsLine]_vars

\* C30 (amended): the turns of the child's 'exit' and 'error' events change
\* no promise, neither table and nothing of the write chain. The turn of a
\* timer, the 5 ms grace after a write, changes no promise and neither
\* table, but it does move the write chain: the write it follows is
\* fulfilled, no other link changes, and the line of at most one queued
\* request, one that was waiting in the chain, is handed to stdin. A pending
\* call whose write has succeeded stays pending until a line carries its id.
C30_LifecycleSettlesNothing ==
    [][/\ last'.kind \in { "exit", "error" } =>
             UNCHANGED << pending, progressCallbacks, promise, link, inFlight,
                          timers, wire >>
       /\ last'.kind = "timer" =>
             /\ UNCHANGED << pending, progressCallbacks, promise >>
             /\ last'.id \in timers
             /\ timers' = timers \ { last'.id }
             /\ link[last'.id].st = "pending"
             /\ link'[last'.id].st = "fulfilled"
             /\ \A i \in CallIds \ { last'.id } : link'[i] = link[i]
             /\ \/ wire' = wire /\ inFlight' = inFlight
                \/ \E i \in CallIds \ inFlight :
                      /\ link[i].st = "pending"
                      /\ wire' = Append(wire, i)
                      /\ inFlight' = inFlight \cup { i }
       /\ PendingUntilItsLine]_vars

\* The worker has exited while the first call, made with a handler, was
\* pending; its write succeeded, and the grace timer of that write then let
\* the second request be written. The first call is pending still.
C30_Witness ==
    /\ last.kind = "timer"
    /\ last.id = 1
    /\ procState = "exited"
    /\ promise[1].state = "pending"
    /\ link[1].st = "fulfilled"
    /\ 1 \in pending \cap progressCallbacks
    /\ wire = << 1, 2 >>
    /\ 2 \in inFlight

\* C31: when a progress callback throws in the dispatch of a line, no
\* promise, neither table and nothing of the write chain changes, so the
\* call stays pending with both its entries; and the line dispatched right
\* after is handled as any other: a result or error line for a pending call
\* settles it, a progress line for a registered handler invokes it.
C31_HandlerExceptionContained ==
    [][/\ (last'.kind = "line" /\ ~last'.ok) =>
             /\ last'.invoked = last'.id
             /\ last'.id \in pending' \cap progressCallbacks'
             /\ promise'[last'.id].state = "pending"
             /\ UNCHANGED << pending, progressCallbacks, promise, link, inFlight,
                             timers, wire >>
       /\ (last.kind = "line" /\ ~last.ok /\ last'.kind = "line") =>
             /\ (last'.shape \in { "result", "error" } /\ last'.id \in pending) =>
                    /\ promise'[last'.id].state \in { "resolved", "rejected" }
                    /\ promise'[last'.id].from = last'.id
             /\ (last'.shape = "progress" /\ last'.id \in progressCallbacks) =>
                    last'.invoked = last'.id]_vars

\* The callback of the second call has thrown while the first call is
\* pending too.
C31_Witness ==
    /\ last.kind = "line"
    /\ ~last.ok
    /\ last.id = 2
    /\ last.invoked = 2
    /\ pending = { 1, 2 }
    /\ 2 \in progressCallbacks

\* The messages that fit more than one shape: a progress event that carries
\* a result or an error, and a message with a result and a truthy error.
IsMixedMessage(msg) ==
    /\ msg.json
    /\ msg.id # 0
    /\ \/ msg.event = "progress" /\ (msg.result # "undefined" \/ Truthy(msg.error))
       \/ msg.event = "none" /\ msg.result # "undefined" /\ Truthy(msg.error)

\* The messages of the model with the given id that fit more than one shape.
MixedMessages(id) ==
    { msg \in { Message("progress", id, pl[1], pl[2]) : pl \in ProgressPayloads }
                \cup { Message("none", id, pl[1], pl[2]) : pl \in Payloads } :
        IsMixedMessage(msg) }

\* C32: a line takes one branch, the progress branch before the result
\* branch before the error branch: for a pending call, a message with event
\* "progress" and the call's id changes no promise and no table whatever
\* result or error it carries, and a message with a result and a truthy
\* error resolves the call with the result.
C32_ProgressThenResultThenError ==
    [][(last'.kind = "line" /\ last'.id \in pending) =>
        \A msg \in MixedMessages(last'.id) :
          Line(msg) =>
              IF msg.event = "progress"
              THEN /\ last'.shape = "progress"
                   /\ UNCHANGED << pending, progressCallbacks, promise >>
              ELSE /\ last'.shape = "result"
                   /\ msg.id \in pending =>
                         promise'[msg.id] =
                             [state |-> "resolved", from |-> msg.id,
                              value |-> ResultValue(msg.result)]]_vars

\* A message with a null result and an error text has resolved its call.
C32_Witness ==
    /\ last.kind = "line"
    /\ last.shape = "result"
    /\ last.id \in CallIds
    /\ promise[last.id].state = "resolved"
    /\ promise[last.id].value.result = "null"
    /\ promise[last.id].from = last.id
    /\ pending # {}

\* C33 (as claimed): the progress of a request is shown only on the video
\* whose generateCaptions call made the request, in whatever order the
\* requests report progress, and no two requests of a batch are mapped to
\* the same video.
C33_ProgressShownOnOwnVideo ==
    /\ \A v \in Videos :
          app.progressMap[v].status = "progress" =>
              /\ app.progressMap[v].request \in DOMAIN app.calls
              /\ app.calls[app.progressMap[v].request].video = v
    /\ \A j, k \in DOMAIN app.calls :
          (/\ j # k
           /\ app.calls[j].batch = app.calls[k].batch
           /\ app.requestIdToVideoPath[j] # 0) =>
              app.requestIdToVideoPath[j] # app.requestIdToVideoPath[k]

\* The listeners still in place: made by rust.onProgress or api.receive on
\* core:progress, their unsubscribe function not called and the channel not
\* emptied since they were made.
InPlace(i) == (1 .. i.subscriptions) \ (i.unsubscribed \cup i.cleared)

\* How many times x occurs in the sequence seq.
Occurrences(seq, x) == Cardinality({ k \in DOMAIN seq : seq[k] = x })

\* C34 (as claimed): once the unsubscribe function returned by
\* rust.onProgress(cb) has been called, a core:progress message does not
\* invoke cb, and it reaches every listener whose unsubscribe function has
\* not been called.
C34_UnsubscribedIsNotInvoked ==
    ipc.event = "message" =>
        /\ \A s \in ipc.unsubscribed : Occurrences(ipc.invoked, ipc.cb[s]) = 0
        /\ \A s \in (1 .. ipc.subscriptions) \ ipc.unsubscribed :
              Occurrences(ipc.delivered, s) = 1

\* C34 (amended): a core:progress message never calls a listener whose
\* unsubscribe function has been called, and calls once every other
\* listener that rust.onProgress or api.receive put on core:progress and
\* that api.removeAllListeners has not taken out since; so a callback is
\* invoked once for each listener in place that calls it, and is not
\* invoked only when no listener in place calls it.
C34_UnsubscribedListenerIsNotInvoked ==
    ipc.event = "message" =>
        /\ \A s \in 1 .. ipc.subscriptions :
              Occurrences(ipc.delivered, s) = (IF s \in InPlace(ipc) THEN 1 ELSE 0)
        /\ \A s \in 1 .. ipc.subscriptions :
              Occurrences(ipc.invoked, ipc.cb[s]) =
                  Cardinality({ l \in InPlace(ipc) : ipc.cb[l] = ipc.cb[s] })

\* The subscription of callback 1 was unsubscribed; a message then reached
\* the listener api.receive had made for the same callback and the
\* subscription of callback 2, and no other.
C34_Witness ==
    /\ ipc.event = "message"
    /\ ipc.cb = << 1, 1, 2 >>
    /\ ipc.received = { 2 }
    /\ ipc.unsubscribed = { 1 }
    /\ ipc.cleared = {}
    /\ ipc.delivered = << 2, 3 >>
    /\ ipc.invoked = << 1, 2 >>
    /\ app = NoApp

\* C35: the toast of an Error of createFriendlyError with a name other than
\* UNKNOWN_ERROR is the one of the case of that name, with the case's own
\* description; the toast of UNKNOWN_ERROR and of any other name is the
\* default one, whose description is the error's message (the text
\* UnexpectedError for an error without a message).
C35_ToastCaseOfEveryKind ==
    \A k \in DOMAIN toast :
        toast[k].case # "plain" =>
            IF toast[k].error.name \in TaxonomyNames \ { "UNKNOWN_ERROR" }
            THEN /\ toast[k].case = toast[k].error.name
                 /\ \E c \in ToastCases :
                       /\ c.name = toast[k].error.name
                       /\ toast[k].description = << c.description >>
            ELSE /\ toast[k].case = "default"
                 /\ toast[k].description =
                       IF toast[k].error.message = << >> THEN << UnexpectedError >>
                       ELSE toast[k].error.message

\* The Error classified from "image not found" was shown by its own case.
C35_Witness ==
    /\ toast # NoToast
    /\ toast[1].error = friendly
    /\ friendly.name = "BINARY_DEP_MISSING"
    /\ toast[1].case = "BINARY_DEP_MISSING"
    /\ errorText = << "image not found" >>
    /\ toast[1].count = 2

\* C36 (as claimed): when the generation was deferred for want of a key with
\* whisper-1 selected, saving a key that is not empty starts it: the save
\* issues the generateCaptions calls for the selected videos.
C36_SaveStartsDeferredGeneration ==
    [][(/\ app.isApiKeySettingsOpen
        /\ ~app'.isApiKeySettingsOpen
        /\ app.shouldGenerateAfterApiKey
        /\ app.apiKey = << >>
        /\ app.selectedModel = "whisper-1"
        /\ app.selectedVideos # << >>
        /\ app'.apiKey # << >>) =>
            /\ app'.isGenerating
            /\ app'.calls =
                  app.calls \o [j \in DOMAIN app.selectedVideos |->
                                  [video |-> app.selectedVideos[j],
                                   batch |-> Len(app.batches) + 1,
                                   state |-> "pending", error |-> NoFriendly]]]_vars

====
